---- MODULE Spec2Model ----
(***************************************************************************)
(* Compatibility scoring of the gym-buddy matcher                          *)
(* (src/src/utils/matchingUtils.ts).                                       *)
(*                                                                         *)
(* calculateMatchScore is a pure function of two fitness profiles.  It is  *)
(* modelled twice, from the same blocks: as an operator and as a run that  *)
(* executes the six criterion blocks of the function body in source order, *)
(* one step per criterion, so that the points a criterion adds are the     *)
(* change of `score` across its step.                                      *)
(*                                                                         *)
(* Strings.  A JavaScript string whose characters matter (gym_name, which  *)
(* is lower-cased) is a sequence of one-character strings.  A reason text  *)
(* is the sequence of the pieces of its template literal, the interpolated *)
(* values included.  The result of toFixed(2) is kept in hundredths.       *)
(***************************************************************************)
EXTENDS Integers, Sequences, FiniteSets, TLC

VARIABLES
    currentUserFitnessProfile,  \* argument of calculateMatchScore
    otherUserFitnessProfile,    \* argument of calculateMatchScore
    pc,                         \* the criterion block about to run
    score,                      \* let score
    matchReasons,               \* const matchReasons: string[]
    result                      \* <<>> until the function returns, then <<MatchScore>>

\* One call of getTopMatches.
VARIABLES
    arrays,                     \* the arrays of the call: the caller's and the copy
    limitArg,                   \* <<>> when the caller passes no limit, else <<limit>>
    rankPc,                     \* the link of the call chain about to run
    top                         \* the array returned

\* The row store and one mount of the useMatchData hook.
VARIABLES
    db,                         \* the tables profiles, fitness_profiles and matches
    hook,                       \* the hook's useState values
    loadPc,                     \* where fetchData stands
    locals,                     \* the consts of fetchData, and the error caught
    toasts                      \* the titles of the notifications shown, in order

\* The Matches page of each signed-in user.
VARIABLES
    page,                       \* per user: the page's useState values and last toast
    fetchData,                  \* per user: the effect's run of fetchData
    calls                       \* per user: the handler calls waiting for a response

\* The MatchDetailsDialog opened on the MatchScore returned.
VARIABLES
    dialog                      \* <<>> until it renders, then <<its category scores>>

\* The Chat page of the signed-in user.
VARIABLES
    chat,                       \* the page's useState values, its URL and its log
    fetchMatches,               \* the run of fetchMatches
    fetchMessages,              \* the runs of fetchMessages waiting for a response
    channel,                    \* the realtime subscription, <<>> if there is none
    callbacks                   \* the insert callbacks waiting for the sender

scorerVars == <<currentUserFitnessProfile, otherUserFitnessProfile, pc, score,
                matchReasons, result>>

rankVars == <<arrays, limitArg, rankPc, top>>

loadVars == <<db, hook, loadPc, locals, toasts>>

pageVars == <<page, fetchData, calls>>

vars == <<scorerVars, rankVars, loadVars, pageVars, dialog,
          chat, fetchMatches, fetchMessages, channel, callbacks>>

\* What a call of calculateMatchScore leaves alone.
outsideScorer ==
    <<rankVars, loadVars, pageVars, dialog,
      chat, fetchMatches, fetchMessages, channel, callbacks>>

\* What a call of getTopMatches leaves alone.
outsideRank ==
    <<scorerVars, loadVars, pageVars, dialog,
      chat, fetchMatches, fetchMessages, channel, callbacks>>

\* What a load of the hook leaves alone.
outsideLoad ==
    <<scorerVars, rankVars, pageVars, dialog,
      chat, fetchMatches, fetchMessages, channel, callbacks>>

\* What the Matches pages leave alone: all but the tables.
outsidePages ==
    <<scorerVars, rankVars, hook, loadPc, locals, toasts, dialog,
      chat, fetchMatches, fetchMessages, channel, callbacks>>

\* What the Chat page leaves alone: all but the tables.
outsideChat == <<scorerVars, rankVars, hook, loadPc, locals, toasts, pageVars, dialog>>

-----------------------------------------------------------------------------
(* Bounds: how many of the form's options the profiles draw from.          *)

NumStyles == 5
NumSlots == 5
NumDays == 5

-----------------------------------------------------------------------------
(* The option lists of the profile form, in the order the form shows them. *)

fitnessLevels == <<"beginner", "intermediate", "advanced">>

fitnessStyles ==
    <<"cardio", "strength", "functional", "hiit", "yoga", "pilates",
      "calisthenics", "crossfit", "swimming", "running">>

fitnessGoals ==
    <<"bulking", "cutting", "maintenance", "endurance", "flexibility", "general">>

daysOfWeek == <<"mon", "tue", "wed", "thu", "fri", "sat", "sun">>

timeSlots ==
    <<"early_morning", "morning", "midday", "afternoon", "evening", "late_evening">>

-----------------------------------------------------------------------------
(* JavaScript values.                                                      *)

\* gym_name: string | null.
null == [present |-> FALSE, value |-> <<>>]

Str(chars) == [present |-> TRUE, value |-> chars]

\* The truthiness test of `gym_name && ...`: null and "" are falsy.
Truthy(s) == s.present /\ Len(s.value) > 0

UpperCaseLetters ==
    <<"A", "B", "C", "D", "E", "F", "G", "H", "I", "J", "K", "L", "M",
      "N", "O", "P", "Q", "R", "S", "T", "U", "V", "W", "X", "Y", "Z">>

LowerCaseLetters ==
    <<"a", "b", "c", "d", "e", "f", "g", "h", "i", "j", "k", "l", "m",
      "n", "o", "p", "q", "r", "s", "t", "u", "v", "w", "x", "y", "z">>

\* String.prototype.toLowerCase, character by character.
toLowerCase(chars) ==
    [i \in 1..Len(chars) |->
        IF \E k \in 1..Len(UpperCaseLetters) : UpperCaseLetters[k] = chars[i]
        THEN LowerCaseLetters[CHOOSE k \in 1..Len(UpperCaseLetters) :
                                  UpperCaseLetters[k] = chars[i]]
        ELSE chars[i]]

\* Array.prototype.includes
includes(array, x) == \E i \in 1..Len(array) : array[i] = x

\* Variant of the filter that keeps every element of a.
filterKeepsAll(a, b) == a

\* a.filter(x => b.includes(x))
filterIncluded(a, b) == SelectSeq(a, LAMBDA x : includes(b, x))

\* Math.min
min(a, b) == IF a < b THEN a ELSE b

\* labels.join(', '), as pieces
RECURSIVE join(_)
join(labels) ==
    IF Len(labels) = 0 THEN <<>>
    ELSE IF Len(labels) = 1 THEN labels
    ELSE <<Head(labels), ", ">> \o join(Tail(labels))

\* (n / d).toFixed(2) for n >= 0, d > 0, in hundredths: round to nearest.
toFixed2(n, d) == (200 * n + d) \div (2 * d)

-----------------------------------------------------------------------------
(* Display labels.                                                         *)

goalFormatMap ==
    [g \in {"bulking", "cutting", "maintenance", "endurance", "flexibility", "general"} |->
        CASE g = "bulking" -> "Muscle building"
          [] g = "cutting" -> "Fat loss"
          [] g = "maintenance" -> "Maintaining fitness"
          [] g = "endurance" -> "Improving endurance"
          [] g = "flexibility" -> "Increasing flexibility"
          [] g = "general" -> "General fitness"]

\* The capitalising fallback applies to keys the table lacks; the goals and
\* styles of the form are all in the tables.
formatGoal(goal) == goalFormatMap[goal]

styleFormatMap ==
    [s \in {"cardio", "strength", "functional", "hiit", "yoga", "pilates",
            "calisthenics", "crossfit", "swimming", "running"} |->
        CASE s = "cardio" -> "Cardio"
          [] s = "strength" -> "Strength Training"
          [] s = "functional" -> "Functional Training"
          [] s = "hiit" -> "HIIT"
          [] s = "yoga" -> "Yoga"
          [] s = "pilates" -> "Pilates"
          [] s = "calisthenics" -> "Calisthenics"
          [] s = "crossfit" -> "CrossFit"
          [] s = "swimming" -> "Swimming"
          [] s = "running" -> "Running"]

formatStyle(style) == styleFormatMap[style]

formatStyles(styles) == [i \in 1..Len(styles) |-> formatStyle(styles[i])]

-----------------------------------------------------------------------------
(* calculateMatchScore, block by block.  `st` is [score, matchReasons] as  *)
(* the block finds them; the block's value is what it leaves.              *)

\* Variant of the goal block that names the raw goal value, not its label.
GoalBlockRawGoal(cur, oth, st) ==
    IF cur.fitness_goal = oth.fitness_goal
    THEN [score |-> st.score + 3,
          matchReasons |-> Append(st.matchReasons,
              <<"You both have the same fitness goal: ", cur.fitness_goal>>)]
    ELSE st

\* lines 17-21: +3 for the same fitness goal
GoalBlock(cur, oth, st) ==
    IF cur.fitness_goal = oth.fitness_goal
    THEN [score |-> st.score + 3,
          matchReasons |-> Append(st.matchReasons,
              <<"You both have the same fitness goal: ", formatGoal(cur.fitness_goal)>>)]
    ELSE st

\* Variant of the style block that caps its points the way the time and
\* availability blocks do.
StyleBlockCapped(cur, oth, st) ==
    LET sharedStyles == filterIncluded(cur.fitness_style, oth.fitness_style)
    IN  IF Len(sharedStyles) > 0
        THEN [score |-> st.score + min(Len(sharedStyles) * 3, 12),
              matchReasons |-> Append(st.matchReasons,
                  <<"You share ", ToString(Len(sharedStyles)), " training styles: ">>
                      \o join(formatStyles(sharedStyles)))]
        ELSE st

\* lines 23-31: +3 for each shared style
StyleBlock(cur, oth, st) ==
    LET sharedStyles == filterIncluded(cur.fitness_style, oth.fitness_style)
    IN  IF Len(sharedStyles) > 0
        THEN [score |-> st.score + Len(sharedStyles) * 3,
              matchReasons |-> Append(st.matchReasons,
                  <<"You share ", ToString(Len(sharedStyles)), " training styles: ">>
                      \o join(formatStyles(sharedStyles)))]
        ELSE st

\* Variant of the time block without the cap.
TimeBlockUncapped(cur, oth, st) ==
    LET sharedTimeSlots ==
            filterIncluded(cur.preferred_time_slots, oth.preferred_time_slots)
    IN  IF Len(sharedTimeSlots) > 0
        THEN [score |-> st.score + Len(sharedTimeSlots) * 2,
              matchReasons |-> Append(st.matchReasons,
                  <<"You have ", ToString(Len(sharedTimeSlots)),
                    " compatible workout times">>)]
        ELSE st

\* lines 33-41: +2 for each shared time slot, at most 6
TimeBlock(cur, oth, st) ==
    LET sharedTimeSlots ==
            filterIncluded(cur.preferred_time_slots, oth.preferred_time_slots)
    IN  IF Len(sharedTimeSlots) > 0
        THEN [score |-> st.score + min(Len(sharedTimeSlots) * 2, 6),
              matchReasons |-> Append(st.matchReasons,
                  <<"You have ", ToString(Len(sharedTimeSlots)),
                    " compatible workout times">>)]
        ELSE st

\* lines 43-47: +2 for the same location
LocationIf(cur, oth, st) ==
    IF cur.location = oth.location
    THEN [score |-> st.score + 2,
          matchReasons |-> Append(st.matchReasons,
              <<"You're both in ", cur.location>>)]
    ELSE st

\* Variant of the guard that lower-cases the names whatever they are.
gymNamesComparedAlways(cur, oth) == TRUE

\* lines 51-52: && evaluates the toLowerCase calls of line 53 only when both
\* names are truthy.
gymNamesCompared(cur, oth) == Truthy(cur.gym_name) /\ Truthy(oth.gym_name)

\* line 53: toLowerCase is called on a name that is null, a TypeError.
raises(cur, oth) ==
    /\ gymNamesCompared(cur, oth)
    /\ ~cur.gym_name.present \/ ~oth.gym_name.present

\* Variant of the gym test that compares the names as written.
GymIfCaseSensitive(cur, oth, st) ==
    IF /\ gymNamesCompared(cur, oth)
       /\ cur.gym_name.value = oth.gym_name.value
    THEN [score |-> st.score + 3,
          matchReasons |-> Append(st.matchReasons,
              <<"You both work out at ">> \o cur.gym_name.value)]
    ELSE st

\* lines 49-57: +3 for the same gym name, ignoring case
GymIf(cur, oth, st) ==
    IF /\ gymNamesCompared(cur, oth)
       /\ toLowerCase(cur.gym_name.value) = toLowerCase(oth.gym_name.value)
    THEN [score |-> st.score + 3,
          matchReasons |-> Append(st.matchReasons,
              <<"You both work out at ">> \o cur.gym_name.value)]
    ELSE st

\* lines 43-57: the location/gym criterion, its two statements in order
LocationBlock(cur, oth, st) == GymIf(cur, oth, LocationIf(cur, oth, st))

\* Variant of the level block that is worth two points.
LevelBlockTwoPoints(cur, oth, st) ==
    IF cur.fitness_level = oth.fitness_level
    THEN [score |-> st.score + 2,
          matchReasons |-> Append(st.matchReasons,
              <<"You're both at a ", cur.fitness_level, " fitness level">>)]
    ELSE st

\* Variant of the level block that puts its reason first (unshift for push).
LevelBlockUnshift(cur, oth, st) ==
    IF cur.fitness_level = oth.fitness_level
    THEN [score |-> st.score + 1,
          matchReasons |->
              << <<"You're both at a ", cur.fitness_level, " fitness level">> >>
                  \o st.matchReasons]
    ELSE st

\* lines 59-63: +1 for the same fitness level
LevelBlock(cur, oth, st) ==
    IF cur.fitness_level = oth.fitness_level
    THEN [score |-> st.score + 1,
          matchReasons |-> Append(st.matchReasons,
              <<"You're both at a ", cur.fitness_level, " fitness level">>)]
    ELSE st

\* Variant of the availability block with the time block's cap.
DaysBlockCappedAtSix(cur, oth, st) ==
    LET sharedDays == filterIncluded(cur.availability_days, oth.availability_days)
    IN  IF Len(sharedDays) > 0
        THEN [score |-> st.score + min(Len(sharedDays) * 2, 6),
              matchReasons |-> Append(st.matchReasons,
                  <<"You share ", ToString(Len(sharedDays)), " days of availability">>)]
        ELSE st

\* lines 65-73: +2 for each shared day, at most 8
DaysBlock(cur, oth, st) ==
    LET sharedDays == filterIncluded(cur.availability_days, oth.availability_days)
    IN  IF Len(sharedDays) > 0
        THEN [score |-> st.score + min(Len(sharedDays) * 2, 8),
              matchReasons |-> Append(st.matchReasons,
                  <<"You share ", ToString(Len(sharedDays)), " days of availability">>)]
        ELSE st

maxPossibleScore == 25

\* Variant of the normalisation that divides by the sum of the six nominal
\* maxima under an exclusive location/gym criterion, 3 + 3 + 6 + 3 + 1 + 8.
normalizedScoreOver24(rawScore) == toFixed2(rawScore, 24)

\* line 77: parseFloat((score / maxPossibleScore).toFixed(2)), in hundredths
normalizedScore(rawScore) == toFixed2(rawScore, maxPossibleScore)

\* lines 79-85: the MatchScore returned (profile is the candidate's Profile row)
MatchScore(otherUserProfile, oth, st) ==
    [userId |-> otherUserProfile.id,
     profile |-> otherUserProfile,
     fitnessProfile |-> oth,
     compatibilityScore |-> normalizedScore(st.score),
     matchReasons |-> st.matchReasons]

\* The function as a whole.
calculateMatchScore(currentUserProfile, cur, otherUserProfile, oth) ==
    LET s0 == [score |-> 0, matchReasons |-> <<>>]
        s1 == GoalBlock(cur, oth, s0)
        s2 == StyleBlock(cur, oth, s1)
        s3 == TimeBlock(cur, oth, s2)
        s4 == LocationBlock(cur, oth, s3)
        s5 == LevelBlock(cur, oth, s4)
        s6 == DaysBlock(cur, oth, s5)
    IN  MatchScore(otherUserProfile, oth, s6)

-----------------------------------------------------------------------------
(* The profiles scored.  A list field holds what the form's checkboxes     *)
(* leave: options of the form, none twice, in the order they were ticked.  *)
(* The pairs scored are three base pairs and every pair that differs from  *)
(* a base pair in one criterion's fields, on either side or both.          *)

Prefix(options, n) == SubSeq(options, 1, n)

range(array) == {array[i] : i \in 1..Len(array)}

\* The boxes ticked in the opposite order.
Reverse(array) == [i \in 1..Len(array) |-> array[Len(array) + 1 - i]]

\* The lists over the first n options: each subset, in the form's order.
Lists(options, n) ==
    {SelectSeq(Prefix(options, n), LAMBDA x : x \in chosen) :
        chosen \in SUBSET range(Prefix(options, n))}

Styles == Lists(fitnessStyles, NumStyles)

Slots == Lists(timeSlots, NumSlots)

Days == Lists(daysOfWeek, NumDays)

Goals == range(fitnessGoals)

Levels == range(fitnessLevels)

Locations == {"Austin, TX", "austin, tx", "Dallas, TX"}

GymNames ==
    {null, Str(<<"G", "o", "l", "d">>), Str(<<"g", "o", "l", "d">>),
     Str(<<"I", "r", "o", "n">>)}

currentUserProfile == [id |-> "user-1"]

otherUserProfile == [id |-> "user-2"]

\* The concrete scenario of the specification's section 8.
ScenarioPair ==
    [cur |-> [fitness_level |-> "intermediate",
              fitness_style |-> <<"strength", "hiit">>,
              fitness_goal |-> "cutting",
              preferred_time_slots |-> <<"morning", "evening">>,
              availability_days |-> <<"mon", "wed", "fri">>,
              location |-> "Austin, TX",
              gym_name |-> null],
     oth |-> [fitness_level |-> "intermediate",
              fitness_style |-> <<"strength", "yoga">>,
              fitness_goal |-> "cutting",
              preferred_time_slots |-> <<"morning">>,
              availability_days |-> <<"mon", "fri">>,
              location |-> "Austin, TX",
              gym_name |-> null]]

\* Two users who ticked every option, the second from the bottom of the form
\* upwards, and train at the same gym.
TwinsPair ==
    [cur |-> [fitness_level |-> "advanced",
              fitness_style |-> Prefix(fitnessStyles, NumStyles),
              fitness_goal |-> "bulking",
              preferred_time_slots |-> Prefix(timeSlots, NumSlots),
              availability_days |-> Prefix(daysOfWeek, NumDays),
              location |-> "Austin, TX",
              gym_name |-> Str(<<"G", "o", "l", "d">>)],
     oth |-> [fitness_level |-> "advanced",
              fitness_style |-> Reverse(Prefix(fitnessStyles, NumStyles)),
              fitness_goal |-> "bulking",
              preferred_time_slots |-> Reverse(Prefix(timeSlots, NumSlots)),
              availability_days |-> Reverse(Prefix(daysOfWeek, NumDays)),
              location |-> "Austin, TX",
              gym_name |-> Str(<<"g", "o", "l", "d">>)]]

\* Two users with nothing in common.
StrangersPair ==
    [cur |-> [fitness_level |-> "beginner",
              fitness_style |-> <<"cardio">>,
              fitness_goal |-> "general",
              preferred_time_slots |-> <<"early_morning">>,
              availability_days |-> <<"mon">>,
              location |-> "Austin, TX",
              gym_name |-> null],
     oth |-> [fitness_level |-> "advanced",
              fitness_style |-> <<"strength">>,
              fitness_goal |-> "bulking",
              preferred_time_slots |-> <<"morning">>,
              availability_days |-> <<"tue">>,
              location |-> "Dallas, TX",
              gym_name |-> Str(<<"I", "r", "o", "n">>)]]

BasePairs == {ScenarioPair, TwinsPair, StrangersPair}

\* A profile row with nothing ticked and no gym.
EmptyProfile ==
    [fitness_level |-> "beginner",
     fitness_style |-> <<>>,
     fitness_goal |-> "general",
     preferred_time_slots |-> <<>>,
     availability_days |-> <<>>,
     location |-> "Austin, TX",
     gym_name |-> null]

\* The pair b with one criterion's fields replaced on both sides.
WithGoal(b, x, y) ==
    [cur |-> [b.cur EXCEPT !.fitness_goal = x],
     oth |-> [b.oth EXCEPT !.fitness_goal = y]]

WithStyles(b, x, y) ==
    [cur |-> [b.cur EXCEPT !.fitness_style = x],
     oth |-> [b.oth EXCEPT !.fitness_style = y]]

WithSlots(b, x, y) ==
    [cur |-> [b.cur EXCEPT !.preferred_time_slots = x],
     oth |-> [b.oth EXCEPT !.preferred_time_slots = y]]

WithPlace(b, xLocation, xGym, yLocation, yGym) ==
    [cur |-> [b.cur EXCEPT !.location = xLocation, !.gym_name = xGym],
     oth |-> [b.oth EXCEPT !.location = yLocation, !.gym_name = yGym]]

WithLevel(b, x, y) ==
    [cur |-> [b.cur EXCEPT !.fitness_level = x],
     oth |-> [b.oth EXCEPT !.fitness_level = y]]

WithDays(b, x, y) ==
    [cur |-> [b.cur EXCEPT !.availability_days = x],
     oth |-> [b.oth EXCEPT !.availability_days = y]]

-----------------------------------------------------------------------------
(* One call of calculateMatchScore, a step per criterion.                  *)

\* The call starts on the pair p.
Call(p) ==
    /\ currentUserFitnessProfile = p.cur
    /\ otherUserFitnessProfile = p.oth
    /\ pc = "goal"
    /\ score = 0
    /\ matchReasons = <<>>
    /\ result = <<>>

\* No call of getTopMatches is under way.
NoRanking ==
    /\ arrays = [matches |-> <<>>, copy |-> <<>>]
    /\ limitArg = <<>>
    /\ rankPc = "idle"
    /\ top = <<>>

\* useMatchData, lines 32-36: the useState initial values.  A value that
\* may be null is <<>> when null and <<value>> otherwise.
useStateInitial ==
    [isLoading |-> TRUE,
     potentialMatches |-> <<>>,
     existingMatches |-> <<>>,
     userProfile |-> <<>>,
     userFitnessProfile |-> <<>>]

\* The consts of fetchData before any is bound.
noLocals ==
    [profileData |-> <<>>,
     typedFitnessProfile |-> <<>>,
     allProfiles |-> <<>>,
     allFitnessProfiles |-> <<>>,
     userMatches |-> <<>>,
     potentialMatchScores |-> <<>>,
     error |-> <<>>]

\* No hook is mounted.
NoHook ==
    /\ hook = useStateInitial
    /\ loadPc = "idle"
    /\ locals = noLocals
    /\ toasts = <<>>

\* No Matches page is open.
NoPages ==
    /\ page = <<>>
    /\ fetchData = <<>>
    /\ calls = <<>>

\* No dialog is open.
NoDialog == dialog = <<>>

\* No Chat page is open.
NoChat ==
    /\ chat = <<>>
    /\ fetchMatches = <<>>
    /\ fetchMessages = {}
    /\ channel = <<>>
    /\ callbacks = {}

\* No hook is mounted, no page is open and the tables are empty.
NoLoad ==
    /\ db = [profiles |-> <<>>, fitness_profiles |-> <<>>, matches |-> <<>>,
             messages |-> <<>>]
    /\ NoHook
    /\ NoPages

Init ==
    /\ NoRanking
    /\ NoLoad
    /\ NoDialog
    /\ NoChat
    /\ \E b \in BasePairs :
        \/ \E x \in Goals, y \in Goals : Call(WithGoal(b, x, y))
        \/ \E x \in Styles, y \in Styles : Call(WithStyles(b, x, y))
        \/ \E x \in Slots, y \in Slots : Call(WithSlots(b, x, y))
        \/ \E xLocation \in Locations, xGym \in GymNames,
              yLocation \in Locations, yGym \in GymNames :
                Call(WithPlace(b, xLocation, xGym, yLocation, yGym))
        \/ \E x \in Levels, y \in Levels : Call(WithLevel(b, x, y))
        \/ \E x \in Days, y \in Days : Call(WithDays(b, x, y))
        \/ \E x \in {EmptyProfile, b.cur}, y \in {EmptyProfile, b.oth} :
              Call([cur |-> x, oth |-> y])

\* score and matchReasons as the next block finds them.
Running == [score |-> score, matchReasons |-> matchReasons]

GoalStep ==
    /\ pc = "goal"
    /\ LET left == GoalBlock(currentUserFitnessProfile, otherUserFitnessProfile, Running)
       IN  /\ score' = left.score
           /\ matchReasons' = left.matchReasons
    /\ pc' = "style"
    /\ UNCHANGED <<currentUserFitnessProfile, otherUserFitnessProfile, result>>
    /\ UNCHANGED outsideScorer

StyleStep ==
    /\ pc = "style"
    /\ LET left == StyleBlock(currentUserFitnessProfile, otherUserFitnessProfile, Running)
       IN  /\ score' = left.score
           /\ matchReasons' = left.matchReasons
    /\ pc' = "time"
    /\ UNCHANGED <<currentUserFitnessProfile, otherUserFitnessProfile, result>>
    /\ UNCHANGED outsideScorer

TimeStep ==
    /\ pc = "time"
    /\ LET left == TimeBlock(currentUserFitnessProfile, otherUserFitnessProfile, Running)
       IN  /\ score' = left.score
           /\ matchReasons' = left.matchReasons
    /\ pc' = "location"
    /\ UNCHANGED <<currentUserFitnessProfile, otherUserFitnessProfile, result>>
    /\ UNCHANGED outsideScorer

\* The only statement of the function that can throw is in this block.
LocationStep ==
    /\ pc = "location"
    /\ IF raises(currentUserFitnessProfile, otherUserFitnessProfile)
       THEN /\ pc' = "threw"
            /\ UNCHANGED <<score, matchReasons>>
       ELSE /\ LET left == LocationBlock(currentUserFitnessProfile,
                                         otherUserFitnessProfile, Running)
               IN  /\ score' = left.score
                   /\ matchReasons' = left.matchReasons
            /\ pc' = "level"
    /\ UNCHANGED <<currentUserFitnessProfile, otherUserFitnessProfile, result>>
    /\ UNCHANGED outsideScorer

LevelStep ==
    /\ pc = "level"
    /\ LET left == LevelBlock(currentUserFitnessProfile, otherUserFitnessProfile, Running)
       IN  /\ score' = left.score
           /\ matchReasons' = left.matchReasons
    /\ pc' = "days"
    /\ UNCHANGED <<currentUserFitnessProfile, otherUserFitnessProfile, result>>
    /\ UNCHANGED outsideScorer

DaysStep ==
    /\ pc = "days"
    /\ LET left == DaysBlock(currentUserFitnessProfile, otherUserFitnessProfile, Running)
       IN  /\ score' = left.score
           /\ matchReasons' = left.matchReasons
    /\ pc' = "return"
    /\ UNCHANGED <<currentUserFitnessProfile, otherUserFitnessProfile, result>>
    /\ UNCHANGED outsideScorer

Return ==
    /\ pc = "return"
    /\ result' = <<MatchScore(otherUserProfile, otherUserFitnessProfile, Running)>>
    /\ pc' = "done"
    /\ UNCHANGED <<currentUserFitnessProfile, otherUserFitnessProfile, score,
                   matchReasons>>
    /\ UNCHANGED outsideScorer

-----------------------------------------------------------------------------
(* MatchDetailsDialog (src/unnamed/part_001, lines 66-270) renders the     *)
(* MatchScore a call returned.  It reads the reason texts character by     *)
(* character, so the texts are spelled out here.                           *)

\* The characters of a string the reasons are made of or the dialog looks
\* for; a string of one character (a digit of a count, a character of a gym
\* name) is its own only character.
Chars(string) ==
    CASE string = "You both have the same fitness goal: " ->
             <<"Y", "o", "u", " ", "b", "o", "t", "h", " ", "h", "a", "v",
               "e", " ", "t", "h", "e", " ", "s", "a", "m", "e", " ", "f",
               "i", "t", "n", "e", "s", "s", " ", "g", "o", "a", "l", ":",
               " ">>
      [] string = "You share " ->
             <<"Y", "o", "u", " ", "s", "h", "a", "r", "e", " ">>
      [] string = " training styles: " ->
             <<" ", "t", "r", "a", "i", "n", "i", "n", "g", " ", "s", "t",
               "y", "l", "e", "s", ":", " ">>
      [] string = ", " ->
             <<",", " ">>
      [] string = "You have " ->
             <<"Y", "o", "u", " ", "h", "a", "v", "e", " ">>
      [] string = " compatible workout times" ->
             <<" ", "c", "o", "m", "p", "a", "t", "i", "b", "l", "e", " ",
               "w", "o", "r", "k", "o", "u", "t", " ", "t", "i", "m", "e",
               "s">>
      [] string = "You're both in " ->
             <<"Y", "o", "u", "'", "r", "e", " ", "b", "o", "t", "h", " ",
               "i", "n", " ">>
      [] string = "You both work out at " ->
             <<"Y", "o", "u", " ", "b", "o", "t", "h", " ", "w", "o", "r",
               "k", " ", "o", "u", "t", " ", "a", "t", " ">>
      [] string = "You're both at a " ->
             <<"Y", "o", "u", "'", "r", "e", " ", "b", "o", "t", "h", " ",
               "a", "t", " ", "a", " ">>
      [] string = " fitness level" ->
             <<" ", "f", "i", "t", "n", "e", "s", "s", " ", "l", "e", "v",
               "e", "l">>
      [] string = " days of availability" ->
             <<" ", "d", "a", "y", "s", " ", "o", "f", " ", "a", "v", "a",
               "i", "l", "a", "b", "i", "l", "i", "t", "y">>
      [] string = "No matching " ->
             <<"N", "o", " ", "m", "a", "t", "c", "h", "i", "n", "g", " ">>
      [] string = "Muscle building" ->
             <<"M", "u", "s", "c", "l", "e", " ", "b", "u", "i", "l", "d",
               "i", "n", "g">>
      [] string = "Fat loss" ->
             <<"F", "a", "t", " ", "l", "o", "s", "s">>
      [] string = "Maintaining fitness" ->
             <<"M", "a", "i", "n", "t", "a", "i", "n", "i", "n", "g", " ",
               "f", "i", "t", "n", "e", "s", "s">>
      [] string = "Improving endurance" ->
             <<"I", "m", "p", "r", "o", "v", "i", "n", "g", " ", "e", "n",
               "d", "u", "r", "a", "n", "c", "e">>
      [] string = "Increasing flexibility" ->
             <<"I", "n", "c", "r", "e", "a", "s", "i", "n", "g", " ", "f",
               "l", "e", "x", "i", "b", "i", "l", "i", "t", "y">>
      [] string = "General fitness" ->
             <<"G", "e", "n", "e", "r", "a", "l", " ", "f", "i", "t", "n",
               "e", "s", "s">>
      [] string = "Cardio" ->
             <<"C", "a", "r", "d", "i", "o">>
      [] string = "Strength Training" ->
             <<"S", "t", "r", "e", "n", "g", "t", "h", " ", "T", "r", "a",
               "i", "n", "i", "n", "g">>
      [] string = "Functional Training" ->
             <<"F", "u", "n", "c", "t", "i", "o", "n", "a", "l", " ", "T",
               "r", "a", "i", "n", "i", "n", "g">>
      [] string = "HIIT" ->
             <<"H", "I", "I", "T">>
      [] string = "Yoga" ->
             <<"Y", "o", "g", "a">>
      [] string = "Pilates" ->
             <<"P", "i", "l", "a", "t", "e", "s">>
      [] string = "Calisthenics" ->
             <<"C", "a", "l", "i", "s", "t", "h", "e", "n", "i", "c", "s">>
      [] string = "CrossFit" ->
             <<"C", "r", "o", "s", "s", "F", "i", "t">>
      [] string = "Swimming" ->
             <<"S", "w", "i", "m", "m", "i", "n", "g">>
      [] string = "Running" ->
             <<"R", "u", "n", "n", "i", "n", "g">>
      [] string = "Austin, TX" ->
             <<"A", "u", "s", "t", "i", "n", ",", " ", "T", "X">>
      [] string = "austin, tx" ->
             <<"a", "u", "s", "t", "i", "n", ",", " ", "t", "x">>
      [] string = "Dallas, TX" ->
             <<"D", "a", "l", "l", "a", "s", ",", " ", "T", "X">>
      [] string = "beginner" ->
             <<"b", "e", "g", "i", "n", "n", "e", "r">>
      [] string = "intermediate" ->
             <<"i", "n", "t", "e", "r", "m", "e", "d", "i", "a", "t", "e">>
      [] string = "advanced" ->
             <<"a", "d", "v", "a", "n", "c", "e", "d">>
      [] string = "goal" ->
             <<"g", "o", "a", "l">>
      [] string = "style" ->
             <<"s", "t", "y", "l", "e">>
      [] string = "time" ->
             <<"t", "i", "m", "e">>
      [] string = "location" ->
             <<"l", "o", "c", "a", "t", "i", "o", "n">>
      [] string = "availability" ->
             <<"a", "v", "a", "i", "l", "a", "b", "i", "l", "i", "t", "y">>
      [] string = "level" ->
             <<"l", "e", "v", "e", "l">>
      [] string = "both in" ->
             <<"b", "o", "t", "h", " ", "i", "n">>
      [] string = "both work out at" ->
             <<"b", "o", "t", "h", " ", "w", "o", "r", "k", " ", "o", "u",
               "t", " ", "a", "t">>
      [] string = "share " ->
             <<"s", "h", "a", "r", "e", " ">>
      [] string = " training styles" ->
             <<" ", "t", "r", "a", "i", "n", "i", "n", "g", " ", "s", "t",
               "y", "l", "e", "s">>
      [] string = " days" ->
             <<" ", "d", "a", "y", "s">>
      [] OTHER -> <<string>>

\* The text of a reason: its pieces, one after the other.
RECURSIVE text(_)
text(reason) ==
    IF reason = <<>> THEN <<>> ELSE Chars(Head(reason)) \o text(Tail(reason))

\* String.prototype.includes
includesText(chars, word) ==
    \E i \in 1..(Len(chars) - Len(word) + 1) : SubSeq(chars, i, i + Len(word) - 1) = word

Digits == <<"0", "1", "2", "3", "4", "5", "6", "7", "8", "9">>

\* parseInt of a string of digits
RECURSIVE parseInt(_)
parseInt(chars) ==
    IF chars = <<>> THEN 0
    ELSE 10 * parseInt(SubSeq(chars, 1, Len(chars) - 1))
             + (CHOOSE d \in 0..9 : Digits[d + 1] = chars[Len(chars)])

\* parseInt of the group of chars.match(/before(\d+)after/i), 0 without a
\* match: the leftmost run of digits between the two texts.
capturedCount(chars, before, after) ==
    LET lower == toLowerCase(chars)
        n == Len(lower)
        runEnd(p) ==
            CHOOSE e \in p..n :
                /\ \A k \in p..e : includes(Digits, lower[k])
                /\ e = n \/ ~includes(Digits, lower[e + 1])
        matchesAt(i) ==
            LET p == i + Len(before)
            IN  /\ p <= n
                /\ SubSeq(lower, i, p - 1) = before
                /\ includes(Digits, lower[p])
                /\ SubSeq(lower, runEnd(p) + 1, min(runEnd(p) + Len(after), n)) = after
        hits == {i \in 1..n : matchesAt(i)}
    IN  IF hits = {} THEN 0
        ELSE LET i == CHOOSE i \in hits : \A j \in hits : i <= j
             IN  parseInt(SubSeq(lower, i + Len(before), runEnd(i + Len(before))))

\* part_001, lines 98-141.  `reasons` (line 99) are the reasons whose
\* lower-cased text includes the category's name.  The detail is a reason, or
\* the pieces of the text that stands in for one.
calculateCategoryScore(match, category) ==
    LET reasons ==
            SelectSeq(match.matchReasons, LAMBDA reason :
                includesText(toLowerCase(text(reason)), toLowerCase(Chars(category))))
        none == <<"No matching ", category>>
        with(word) ==
            SelectSeq(reasons, LAMBDA r : includesText(text(r), Chars(word)))
        counted(before, after, each) ==
            min(capturedCount(text(reasons[1]), before, Chars(after)) * each, 100)
    IN  IF Len(reasons) = 0 THEN [percentage |-> 0, detail |-> none]
        ELSE CASE category = "goal" -> [percentage |-> 100, detail |-> reasons[1]]
               [] category = "style" ->
                      [percentage |-> counted(Chars("share "), " training styles", 25),
                       detail |-> reasons[1]]
               [] category = "time" ->
                      [percentage |-> counted(<<>>, " compatible workout times", 33),
                       detail |-> reasons[1]]
               [] category = "location" ->
                      LET hasLocation == with("both in") # <<>>
                          hasGym == with("both work out at") # <<>>
                      IN  [percentage |->
                               IF hasGym THEN 100 ELSE IF hasLocation THEN 60 ELSE 0,
                           detail |->
                               IF hasGym THEN with("both work out at")[1]
                               ELSE IF hasLocation THEN with("both in")[1]
                               ELSE none]
               [] category = "availability" ->
                      [percentage |-> counted(Chars("share "), " days", 14),
                       detail |-> reasons[1]]
               [] category = "level" -> [percentage |-> 100, detail |-> reasons[1]]
               [] OTHER -> [percentage |-> 0, detail |-> <<>>]

\* part_001, lines 143-148: the dialog renders on the MatchScore returned.
Render ==
    /\ pc = "done"
    /\ dialog = <<>>
    /\ dialog' =
           <<[goalScore |-> calculateCategoryScore(result[1], "goal"),
              styleScore |-> calculateCategoryScore(result[1], "style"),
              timeScore |-> calculateCategoryScore(result[1], "time"),
              locationScore |->
                  calculateCategoryScore(result[1], "location"),
              availabilityScore |->
                  calculateCategoryScore(result[1], "availability"),
              levelScore |-> calculateCategoryScore(result[1], "level")]>>
    /\ UNCHANGED <<scorerVars, rankVars, loadVars, pageVars, chat, fetchMatches, fetchMessages, channel, callbacks>>

Next ==
    \/ GoalStep
    \/ StyleStep
    \/ TimeStep
    \/ LocationStep
    \/ LevelStep
    \/ DaysStep
    \/ Return

Spec == Init /\ [][Next]_vars

\* A call on a pair with any of the locations and gym names, and the dialog
\* on what it returns.
InitDialog ==
    /\ NoRanking
    /\ NoLoad
    /\ NoDialog
    /\ NoChat
    /\ \E b \in BasePairs :
          \E xLocation \in Locations, xGym \in GymNames,
             yLocation \in Locations, yGym \in GymNames :
                Call(WithPlace(b, xLocation, xGym, yLocation, yGym))

NextDialog ==
    \/ GoalStep
    \/ StyleStep
    \/ TimeStep
    \/ LocationStep
    \/ LevelStep
    \/ DaysStep
    \/ Return
    \/ Render

SpecDialog == InitDialog /\ [][NextDialog]_vars

-----------------------------------------------------------------------------
(* Properties.                                                             *)

self == currentUserFitnessProfile

other == otherUserFitnessProfile

\* The values two lists share, as a set.
Shared(a, b) == range(a) \cap range(b)

SharedStyleCount == Cardinality(Shared(self.fitness_style, other.fitness_style))

SharedSlotCount ==
    Cardinality(Shared(self.preferred_time_slots, other.preferred_time_slots))

SharedDayCount == Cardinality(Shared(self.availability_days, other.availability_days))

SameGoal == self.fitness_goal = other.fitness_goal

SameLevel == self.fitness_level = other.fitness_level

SameLocation == self.location = other.location

\* Both gym names present (not null, not empty) and equal ignoring case.
SameGym ==
    /\ self.gym_name.present /\ self.gym_name.value # <<>>
    /\ other.gym_name.present /\ other.gym_name.value # <<>>
    /\ toLowerCase(self.gym_name.value) = toLowerCase(other.gym_name.value)

\* The criterion a reason text belongs to, read off its wording.
ReasonKind(r) ==
    CASE r[1] = "You both have the same fitness goal: " -> "goal"
      [] r[1] = "You have " -> "time"
      [] r[1] = "You're both in " -> "location"
      [] r[1] = "You both work out at " -> "gym"
      [] r[1] = "You're both at a " -> "level"
      [] r[1] = "You share " /\ r[3] = " training styles: " -> "style"
      [] r[1] = "You share " /\ r[3] = " days of availability" -> "availability"
      [] OTHER -> "unknown"

\* The position of a reason's criterion in the fixed order.
CriterionRank(kind) ==
    CASE kind = "goal" -> 1
      [] kind = "style" -> 2
      [] kind = "time" -> 3
      [] kind = "location" -> 4
      [] kind = "gym" -> 4
      [] kind = "level" -> 5
      [] kind = "availability" -> 6
      [] OTHER -> 0

HasReason(reasons, kind) == \E i \in 1..Len(reasons) : ReasonKind(reasons[i]) = kind

Last(seq) == seq[Len(seq)]

GymReason == <<"You both work out at ">> \o self.gym_name.value

LocationReason == <<"You're both in ", self.location>>

\* The step added exactly the reason r.
Emits(r) == matchReasons' = Append(matchReasons, r)

EmitsNothing == matchReasons' = matchReasons

\* C1: the location/gym criterion fires at most once per pair: the same gym
\* adds 3 and only the gym reason; otherwise the same location adds 2 and only
\* the location reason; otherwise nothing.  Never more than 3.
C1_LocationGymAtMostOnce ==
    [][pc = "location" =>
          /\ score' - score <= 3
          /\ IF SameGym THEN score' = score + 3 /\ Emits(GymReason)
             ELSE IF SameLocation THEN score' = score + 2 /\ Emits(LocationReason)
             ELSE score' = score /\ EmitsNothing]_vars

\* The raw score as C2 states it: location/gym contributes 3, 2 or 0.
C2_Raw ==
    (IF SameGoal THEN 3 ELSE 0)
    + 3 * SharedStyleCount
    + min(2 * SharedSlotCount, 6)
    + (IF SameGym THEN 3 ELSE IF SameLocation THEN 2 ELSE 0)
    + (IF SameLevel THEN 1 ELSE 0)
    + min(2 * SharedDayCount, 8)

\* C2: the returned compatibilityScore is raw/25 to two decimals, that is
\* 100 * compatibilityScore = 4 * raw, raw being the sum of the six
\* contributions with location/gym worth 3, 2 or 0.
C2_ScoreIsRawOver25 ==
    pc = "done" => result[1].compatibilityScore = 4 * C2_Raw

\* C3: the returned compatibilityScore lies between 0 and 1 inclusive.
C3_ScoreInUnitInterval ==
    pc = "done" =>
        /\ result[1].compatibilityScore >= 0
        /\ result[1].compatibilityScore <= 100

\* C4: the style criterion adds exactly 3 per shared style, without a cap, and
\* emits the style reason exactly when a style is shared.
C4_StyleLinearUncapped ==
    [][pc = "style" =>
          /\ score' = score + 3 * SharedStyleCount
          /\ IF SharedStyleCount > 0
             THEN /\ Len(matchReasons') = Len(matchReasons) + 1
                  /\ SubSeq(matchReasons', 1, Len(matchReasons)) = matchReasons
                  /\ ReasonKind(Last(matchReasons')) = "style"
             ELSE EmitsNothing]_vars

\* Five shared styles were scored: 15 points on top of the goal's.
C4_Witness ==
    /\ pc = "time"
    /\ SharedStyleCount = 5
    /\ score = (IF SameGoal THEN 3 ELSE 0) + 15
    /\ ReasonKind(Last(matchReasons)) = "style"

\* C5: the time-slot criterion adds min(2 * |T|, 6) and emits a reason stating
\* |T| exactly when |T| > 0.
C5_TimeCappedAtSix ==
    [][pc = "time" =>
          /\ score' = score + min(2 * SharedSlotCount, 6)
          /\ SharedSlotCount >= 3 => score' = score + 6
          /\ IF SharedSlotCount > 0
             THEN Emits(<<"You have ", ToString(SharedSlotCount),
                          " compatible workout times">>)
             ELSE EmitsNothing]_vars

\* Four shared time slots were scored and the reason states 4.
C5_Witness ==
    /\ pc = "location"
    /\ SharedSlotCount = 4
    /\ Last(matchReasons) = <<"You have ", "4", " compatible workout times">>

\* C6: the availability criterion adds min(2 * |D|, 8) and emits a reason
\* stating |D| exactly when |D| > 0.
C6_AvailabilityCappedAtEight ==
    [][pc = "days" =>
          /\ score' = score + min(2 * SharedDayCount, 8)
          /\ SharedDayCount >= 4 => score' = score + 8
          /\ IF SharedDayCount > 0
             THEN Emits(<<"You share ", ToString(SharedDayCount),
                          " days of availability">>)
             ELSE EmitsNothing]_vars

\* Five shared days were scored and the reason states 5.
C6_Witness ==
    /\ pc = "return"
    /\ SharedDayCount = 5
    /\ Last(matchReasons) = <<"You share ", "5", " days of availability">>

\* C7: equal goals add exactly 3 (so the raw score is at least 3) and emit a
\* reason naming the formatted goal; unequal goals add 0 and emit nothing.
C7_GoalMatch ==
    /\ [][pc = "goal" =>
            IF SameGoal
            THEN /\ score' = score + 3
                 /\ Emits(<<"You both have the same fitness goal: ",
                            formatGoal(self.fitness_goal)>>)
            ELSE score' = score /\ EmitsNothing]_vars
    /\ [](pc = "done" /\ SameGoal =>
            /\ score >= 3
            /\ \E i \in 1..Len(result[1].matchReasons) :
                  result[1].matchReasons[i] =
                      <<"You both have the same fitness goal: ",
                        goalFormatMap[self.fitness_goal]>>)
    /\ [](pc = "done" /\ ~SameGoal => ~HasReason(result[1].matchReasons, "goal"))

\* A pair with the same goal was scored and the goal reason names its label.
C7_Witness ==
    /\ pc = "done"
    /\ SameGoal
    /\ self.fitness_goal = "cutting"
    /\ result[1].matchReasons[1] = <<"You both have the same fitness goal: ", "Fat loss">>

\* C8: gym names equal ignoring case and locations different: the location/gym
\* criterion adds 3, with the same-gym reason and no same-location reason.
C8_GymWithoutLocation ==
    [][pc = "location" /\ SameGym /\ ~SameLocation =>
          /\ score' = score + 3
          /\ Emits(GymReason)
          /\ ~HasReason(matchReasons', "location")]_vars

\* Gym names that differ only in case, in different locations, were scored.
C8_Witness ==
    /\ pc = "level"
    /\ SameGym
    /\ self.gym_name # other.gym_name
    /\ ~SameLocation
    /\ Last(matchReasons) = GymReason

\* C9: matchReasons is in the fixed criterion order goal, style, time,
\* location/gym, level, availability; a criterion that did not trigger has no
\* reason in the list.
C9_ReasonsInCriterionOrder ==
    /\ \A i \in 1..Len(matchReasons) : CriterionRank(ReasonKind(matchReasons[i])) > 0
    /\ \A i, j \in 1..Len(matchReasons) :
          i < j =>
              /\ CriterionRank(ReasonKind(matchReasons[i]))
                     <= CriterionRank(ReasonKind(matchReasons[j]))
              /\ ReasonKind(matchReasons[i]) # ReasonKind(matchReasons[j])
    /\ pc = "done" =>
          /\ result[1].matchReasons = matchReasons
          /\ HasReason(matchReasons, "goal") <=> SameGoal
          /\ HasReason(matchReasons, "style") <=> SharedStyleCount > 0
          /\ HasReason(matchReasons, "time") <=> SharedSlotCount > 0
          /\ (HasReason(matchReasons, "location") \/ HasReason(matchReasons, "gym"))
                 <=> (SameLocation \/ SameGym)
          /\ HasReason(matchReasons, "level") <=> SameLevel
          /\ HasReason(matchReasons, "availability") <=> SharedDayCount > 0

\* A call returned reasons around a criterion that did not trigger: goal and
\* level reasons, no style reason.
C9_Witness ==
    /\ pc = "done"
    /\ Len(matchReasons) >= 4
    /\ HasReason(matchReasons, "goal")
    /\ ~HasReason(matchReasons, "style")
    /\ HasReason(matchReasons, "level")
    /\ HasReason(matchReasons, "availability")

InScenario == self = ScenarioPair.cur /\ other = ScenarioPair.oth

\* C10: the concrete scenario yields raw score 15, normalized score 0.6 and
\* six reasons in the order goal, style, time, location, level, availability.
C10_ConcreteScenario ==
    pc = "done" /\ InScenario =>
        /\ score = 15
        /\ result[1].compatibilityScore = 60
        /\ Len(result[1].matchReasons) = 6
        /\ [i \in 1..6 |-> ReasonKind(result[1].matchReasons[i])]
               = <<"goal", "style", "time", "location", "level", "availability">>

\* The scenario was scored.
C10_Witness ==
    /\ pc = "done"
    /\ InScenario
    /\ result[1].compatibilityScore = 60

\* The two profiles share the fitness level and nothing else.
OnlyLevelShared ==
    /\ SameLevel
    /\ ~SameGoal
    /\ SharedStyleCount = 0
    /\ SharedSlotCount = 0
    /\ SharedDayCount = 0
    /\ ~SameLocation
    /\ ~SameGym

\* C11: a pair that shares only the fitness level gets raw score 1, normalized
\* score 0.04 and exactly one reason, the fitness-level reason.
C11_OnlyLevelShared ==
    pc = "done" /\ OnlyLevelShared =>
        /\ score = 1
        /\ result[1].compatibilityScore = 4
        /\ result[1].matchReasons =
               << <<"You're both at a ", self.fitness_level, " fitness level">> >>

\* Such a pair was scored.
C11_Witness ==
    /\ pc = "done"
    /\ OnlyLevelShared
    /\ result[1].compatibilityScore = 4

\* C21: a call never ends in a thrown error, goes on until it has returned a
\* result, whatever lists are empty and whichever gym name is null; a
\* criterion with an empty list on either side adds no point and no reason.
C21_NeverRaises ==
    /\ [](pc # "threw")
    /\ [](pc # "done" => ENABLED Next)
    /\ [](pc = "done" => Len(result) = 1)
    /\ [][pc = "style" /\ (self.fitness_style = <<>> \/ other.fitness_style = <<>>)
             => score' = score /\ EmitsNothing]_vars
    /\ [][pc = "time"
             /\ (self.preferred_time_slots = <<>> \/ other.preferred_time_slots = <<>>)
             => score' = score /\ EmitsNothing]_vars
    /\ [][pc = "days"
             /\ (self.availability_days = <<>> \/ other.availability_days = <<>>)
             => score' = score /\ EmitsNothing]_vars

\* A profile with empty lists and no gym was scored against one with a gym
\* and something in every list: the call returned, with no reason.
C21_Witness ==
    /\ pc = "done"
    /\ self = EmptyProfile
    /\ other.gym_name # null
    /\ other.fitness_style # <<>>
    /\ other.preferred_time_slots # <<>>
    /\ other.availability_days # <<>>
    /\ Len(result) = 1
    /\ result[1].matchReasons = <<>>

\* No value occurs twice in a list of the profile.
NoDuplicates(profile) ==
    /\ Cardinality(range(profile.fitness_style)) = Len(profile.fitness_style)
    /\ Cardinality(range(profile.preferred_time_slots)) = Len(profile.preferred_time_slots)
    /\ Cardinality(range(profile.availability_days)) = Len(profile.availability_days)

\* The MatchScore of the same pair from the other user's side.
FromOtherSide ==
    calculateMatchScore(otherUserProfile, other, currentUserProfile, self)

\* C29: for two profiles without duplicates in their lists, the score the
\* call returns equals the score of the call with the two profiles exchanged.
C29_ScoreSymmetric ==
    pc = "done" /\ NoDuplicates(self) /\ NoDuplicates(other) =>
        result[1].compatibilityScore = FromOtherSide.compatibilityScore

\* A pair was scored whose lists differ in length and order and whose gym
\* names differ in case: the two sides get the same positive score and
\* different reason texts.
C29_Witness ==
    /\ pc = "done"
    /\ Len(self.fitness_style) > Len(other.fitness_style)
    /\ SharedStyleCount > 0
    /\ SameGym
    /\ self.gym_name # other.gym_name
    /\ result[1].compatibilityScore = FromOtherSide.compatibilityScore
    /\ result[1].compatibilityScore > 0
    /\ result[1].matchReasons # FromOtherSide.matchReasons

\* C30: the Location category of the dialog shows 100% when the reasons
\* hold the same-gym reason, otherwise 60% when they hold the same-location
\* reason, otherwise 0%.
C30_LocationCategory ==
    dialog # <<>> =>
        dialog[1].locationScore.percentage =
            IF HasReason(result[1].matchReasons, "gym") THEN 100
            ELSE IF HasReason(result[1].matchReasons, "location") THEN 60
            ELSE 0

-----------------------------------------------------------------------------
(* getTopMatches (src/src/utils/matchingUtils.ts, lines 91-95).            *)
(*                                                                         *)
(* A JavaScript array is an object the caller and the callee share, so the *)
(* arrays of a call are kept by name: `matches` is the caller's array and  *)
(* `copy` the one the spread allocates.  sort works in place on the array  *)
(* it is called on; slice allocates the array returned.  A MatchScore is   *)
(* kept as its userId and compatibilityScore (in hundredths).              *)

\* Bounds: the longest list ranked and the largest limit passed.
MaxCandidates == 4
MaxLimit == 4

\* No call of calculateMatchScore is under way.
NoScoring ==
    /\ currentUserFitnessProfile = ScenarioPair.cur
    /\ otherUserFitnessProfile = ScenarioPair.oth
    /\ pc = "idle"
    /\ score = 0
    /\ matchReasons = <<>>
    /\ result = <<>>

max(a, b) == IF a > b THEN a ELSE b

\* Array.prototype.slice(start, end) for start >= 0; a negative end counts
\* from the end of the array.
slice(array, start, end) ==
    LET n == Len(array)
        to == IF end < 0 THEN max(n + end, 0) ELSE min(end, n)
    IN  SubSeq(array, start + 1, to)

\* Variant of the comparator that sorts ascending.
byScoreAscending(a, b) == a.compatibilityScore - b.compatibilityScore

\* line 93: (a, b) => b.compatibilityScore - a.compatibilityScore
byScoreDescending(a, b) == b.compatibilityScore - a.compatibilityScore

\* Array.prototype.sort with the comparator above (the one every call site
\* passes): stable, and an element goes before another when the comparator
\* says so (negative) or, on a tie, when it was first.
sort(array) ==
    LET n == Len(array)
        before(j, i) ==
            \/ byScoreDescending(array[j], array[i]) < 0
            \/ byScoreDescending(array[j], array[i]) = 0 /\ j < i
        place(i) == Cardinality({j \in 1..n : before(j, i)}) + 1
    IN  [k \in 1..n |-> array[CHOOSE i \in 1..n : place(i) = k]]

\* line 91: limit: number = 3
limit == IF limitArg = <<>> THEN 3 ELSE limitArg[1]

\* Variant of the spread that hands on the caller's array itself.
spreadInPlace == "matches"

\* line 92: [...matches] is a new array; the chain goes on with it.
spread == "copy"

\* The scores the ranked lists draw from.
RankScores == {4, 32, 60}

\* A list of MatchScores with the given scores, each of another user.
Candidates(scores) ==
    [i \in 1..Len(scores) |->
        [userId |-> i, compatibilityScore |-> scores[i]]]

RankInputs ==
    UNION {[1..n -> RankScores] : n \in 0..MaxCandidates}

\* getTopMatches(matches) or getTopMatches(matches, limit) is called.
InitRank ==
    /\ NoScoring
    /\ NoLoad
    /\ NoDialog
    /\ NoChat
    /\ \E scores \in RankInputs :
          arrays = [matches |-> Candidates(scores), copy |-> <<>>]
    /\ limitArg \in {<<>>} \cup {<<n>> : n \in 0..MaxLimit}
    /\ rankPc = "spread"
    /\ top = <<>>

\* [...matches]
Spread ==
    /\ rankPc = "spread"
    /\ arrays' = [arrays EXCEPT ![spread] = arrays.matches]
    /\ rankPc' = "sort"
    /\ UNCHANGED <<limitArg, top, outsideRank>>

\* .sort(...)
Sort ==
    /\ rankPc = "sort"
    /\ arrays' = [arrays EXCEPT ![spread] = sort(arrays[spread])]
    /\ rankPc' = "slice"
    /\ UNCHANGED <<limitArg, top, outsideRank>>

\* return ... .slice(0, limit)
Slice ==
    /\ rankPc = "slice"
    /\ top' = slice(arrays[spread], 0, limit)
    /\ rankPc' = "done"
    /\ UNCHANGED <<arrays, limitArg, outsideRank>>

NextRank ==
    \/ Spread
    \/ Sort
    \/ Slice

SpecRank == InitRank /\ [][NextRank]_vars

\* How many times x occurs in the array.
Count(array, x) == Cardinality({i \in 1..Len(array) : array[i] = x})

\* C12: getTopMatches returns min(limit, n) elements of its input (none more
\* often than the input holds it), in non-increasing order of score, and no
\* candidate left out scores higher than a returned one; without a limit it
\* returns at most 3.
C12_TopMatches ==
    rankPc = "done" =>
        /\ Len(top) = min(limit, Len(arrays.matches))
        /\ \A i \in 1..Len(top) : Count(top, top[i]) <= Count(arrays.matches, top[i])
        /\ \A i \in 1..Len(top), j \in 1..Len(top) :
              i < j => top[i].compatibilityScore >= top[j].compatibilityScore
        /\ \A i \in 1..Len(arrays.matches) :
              Count(top, arrays.matches[i]) = 0 =>
                  \A j \in 1..Len(top) :
                      arrays.matches[i].compatibilityScore <= top[j].compatibilityScore
        /\ limitArg = <<>> => Len(top) <= 3

\* A list longer than the default limit and not in order was ranked without a
\* limit: three are returned, one is left out.
C12_Witness ==
    /\ rankPc = "done"
    /\ limitArg = <<>>
    /\ Len(arrays.matches) = 4
    /\ Len(top) = 3
    /\ arrays.matches[1].compatibilityScore < arrays.matches[4].compatibilityScore

\* C13: no step of getTopMatches changes the caller's list.
C13_InputUnchanged == [][arrays'.matches = arrays.matches]_vars

\* A list that was not in order has been ranked: the copy was reordered.
C13_Witness ==
    /\ rankPc = "done"
    /\ arrays.copy # arrays.matches
    /\ arrays.matches # <<>>

-----------------------------------------------------------------------------
(* useMatchData (src/src/components/DebugInfoDisplay.tsx, lines 30-228):   *)
(* one mount of the hook for the signed-in user and the load its effect    *)
(* starts.  The effect's dependencies are the user id and the toast        *)
(* function, neither of which changes under a mounted hook, so the load    *)
(* runs once.  Each await of fetchData is a step; a request either fails   *)
(* (the error is thrown to the catch clause) or returns the rows its       *)
(* filter selects from the table.  The work after the last await (lines    *)
(* 124-200) runs without interruption.                                     *)

userId == currentUserProfile.id

\* The other users who have a profile row.
OtherIds == <<"user-2", "user-3", "user-4">>

\* A fitness_profiles row: the profile's columns and the owner's id.
Row(id, fitnessProfile) == [id |-> id] @@ fitnessProfile

\* Array.prototype.find with a test of the id (the test of every call site):
\* <<>> for undefined, else <<the first element with that id>>.
find(array, id) ==
    LET hits == SelectSeq(array, LAMBDA x : x.id = id)
    IN  IF hits = <<>> THEN <<>> ELSE <<hits[1]>>

\* The fitness profile another user may have: none, one with a column left
\* empty, one that scores 0.6 with the current user's and one that scores 0.28.
FitnessOptions ==
    {<<>>,
     <<[ScenarioPair.oth EXCEPT !.fitness_level = ""]>>,
     <<[ScenarioPair.oth EXCEPT !.fitness_goal = ""]>>,
     <<[ScenarioPair.oth EXCEPT !.fitness_style = <<>>]>>,
     <<ScenarioPair.oth>>,
     <<[StrangersPair.oth EXCEPT !.availability_days = <<"mon">>]>>}

\* The match another user may have with the current user: none, one the
\* current user created, or one the other user created, in any status.
MatchOptions ==
    {<<>>,
     <<[user1_id |-> 1, status |-> "pending"]>>,
     <<[user1_id |-> 2, status |-> "accepted"]>>,
     <<[user1_id |-> 2, status |-> "rejected"]>>}

\* The matches row of the i-th other user under option m.
MatchRow(i, m) ==
    [id |-> i,
     user1_id |-> IF m.user1_id = 1 THEN userId ELSE OtherIds[i],
     user2_id |-> IF m.user1_id = 1 THEN OtherIds[i] ELSE userId,
     status |-> m.status,
     compatibility_score |-> 60]

\* The tables when the other users hold the fitness profiles f and matches m.
Tables(f, m) ==
    LET fitnessRows(i) ==
            IF f[i] = <<>> THEN <<>> ELSE <<Row(OtherIds[i], f[i][1])>>
        matchRows(i) ==
            IF m[i] = <<>> THEN <<>> ELSE <<MatchRow(i, m[i][1])>>
    IN  [profiles |->
             <<currentUserProfile>> \o [i \in 1..Len(OtherIds) |-> [id |-> OtherIds[i]]],
         fitness_profiles |->
             fitnessRows(1) \o <<Row(userId, ScenarioPair.cur)>>
                 \o fitnessRows(2) \o fitnessRows(3),
         matches |-> matchRows(1) \o matchRows(2) \o matchRows(3),
         messages |-> <<>>]

\* The hook mounts: lines 32-36, and the effect calls fetchData.
InitLoad ==
    /\ NoScoring
    /\ NoRanking
    /\ NoDialog
    /\ NoChat
    /\ \E f \in [1..Len(OtherIds) -> FitnessOptions],
          m \in [1..Len(OtherIds) -> MatchOptions] : db = Tables(f, m)
    /\ NoPages
    /\ hook = useStateInitial
    /\ loadPc = "profile"
    /\ locals = noLocals
    /\ toasts = <<>>

\* throw: control passes to the catch clause with the error.
Throw(error) ==
    /\ loadPc' = "catch"
    /\ locals' = [locals EXCEPT !.error = <<error>>]
    /\ UNCHANGED <<hook, toasts>>

\* .single(): an error unless exactly one row is selected.
single(rows) == IF Len(rows) = 1 THEN <<rows[1]>> ELSE <<>>

\* lines 48-59: the user's profile
FetchProfile ==
    /\ loadPc = "profile"
    /\ LET data == single(SelectSeq(db.profiles, LAMBDA row : row.id = userId))
       IN  \/ /\ data # <<>>
              /\ locals' = [locals EXCEPT !.profileData = data]
              /\ hook' = [hook EXCEPT !.userProfile = data]
              /\ loadPc' = "fitnessProfile"
              /\ UNCHANGED toasts
           \/ Throw("profileError")
    /\ UNCHANGED <<db, outsideLoad>>

\* lines 62-89: the user's fitness profile.  A request that succeeds with
\* .single() has a row, so the branch of lines 73-81 is not taken.
FetchFitnessProfile ==
    /\ loadPc = "fitnessProfile"
    /\ LET data == single(SelectSeq(db.fitness_profiles, LAMBDA row : row.id = userId))
       IN  \/ /\ data # <<>>
              /\ locals' = [locals EXCEPT !.typedFitnessProfile = data]
              /\ hook' = [hook EXCEPT !.userFitnessProfile = data]
              /\ loadPc' = "allProfiles"
              /\ UNCHANGED toasts
           \/ Throw("fitnessProfileError")
    /\ UNCHANGED <<db, outsideLoad>>

\* lines 92-100: every other profile
FetchAllProfiles ==
    /\ loadPc = "allProfiles"
    /\ \/ /\ locals' = [locals EXCEPT !.allProfiles =
                            SelectSeq(db.profiles, LAMBDA row : row.id # userId)]
          /\ loadPc' = "allFitnessProfiles"
          /\ UNCHANGED <<hook, toasts>>
       \/ Throw("allProfilesError")
    /\ UNCHANGED <<db, outsideLoad>>

\* lines 103-111: every other fitness profile
FetchAllFitnessProfiles ==
    /\ loadPc = "allFitnessProfiles"
    /\ \/ /\ locals' = [locals EXCEPT !.allFitnessProfiles =
                            SelectSeq(db.fitness_profiles, LAMBDA row : row.id # userId)]
          /\ loadPc' = "userMatches"
          /\ UNCHANGED <<hook, toasts>>
       \/ Throw("allFitnessProfilesError")
    /\ UNCHANGED <<db, outsideLoad>>

\* lines 114-122: the matches the user is part of
FetchUserMatches ==
    /\ loadPc = "userMatches"
    /\ \/ /\ locals' = [locals EXCEPT !.userMatches =
                            SelectSeq(db.matches,
                                LAMBDA row : row.user1_id = userId \/ row.user2_id = userId)]
          /\ loadPc' = "process"
          /\ UNCHANGED <<hook, toasts>>
       \/ Throw("userMatchesError")
    /\ UNCHANGED <<db, outsideLoad>>

\* lines 124-144: each match with the other user's profile and fitness profile
processedExistingMatches(userMatches, allProfiles, allFitnessProfiles) ==
    [i \in 1..Len(userMatches) |->
        LET match == userMatches[i]
            otherUserId ==
                IF match.user1_id = userId THEN match.user2_id ELSE match.user1_id
        IN  match @@
            [otherUser |-> find(allProfiles, otherUserId),
             otherUserFitnessProfile |->
                 find(allFitnessProfiles, otherUserId)]]

\* Variant that collects only the users the current user was matched by.
existingMatchUserIdsCreatorOnly(userMatches) ==
    [i \in 1..Len(userMatches) |-> userMatches[i].user1_id]

\* line 148: userMatches.flatMap(match => [match.user1_id, match.user2_id])
existingMatchUserIds(userMatches) ==
    [i \in 1..(2 * Len(userMatches)) |->
        IF i % 2 = 1 THEN userMatches[(i + 1) \div 2].user1_id
                     ELSE userMatches[i \div 2].user2_id]

\* Variant of the test that lets an empty style list through.
incompleteIgnoringStyles(found) ==
    \/ found = <<>>
    \/ found[1].fitness_level = ""
    \/ found[1].fitness_goal = ""

\* lines 163-166: no fitness profile, or one without level, goal or styles
incomplete(found) ==
    \/ found = <<>>
    \/ found[1].fitness_level = ""
    \/ found[1].fitness_goal = ""
    \/ Len(found[1].fitness_style) = 0

\* lines 151-185: the loop over allProfiles
potentialMatchScores(profileData, typedFitnessProfile, allProfiles, allFitnessProfiles, userMatches) ==
    LET fitnessProfileOf(profile) ==
            find(allFitnessProfiles, profile.id)
        reached ==
            SelectSeq(allProfiles, LAMBDA profile :
                /\ ~includes(existingMatchUserIds(userMatches), profile.id)
                /\ ~incomplete(fitnessProfileOf(profile)))
    IN  [i \in 1..Len(reached) |->
            calculateMatchScore(profileData, typedFitnessProfile,
                                reached[i], fitnessProfileOf(reached[i])[1])]

\* Variant of the filter with the threshold at 0.2.
filteredMatchesAboveFifth(matchScores) ==
    SelectSeq(matchScores, LAMBDA match : match.compatibilityScore > 20)

\* line 188: filter(match => match.compatibilityScore > 0.3)
filteredMatches(matchScores) ==
    SelectSeq(matchScores, LAMBDA match : match.compatibilityScore > 30)

\* lines 124-200: everything after the last fetch
Process ==
    /\ loadPc = "process"
    /\ LET scores == potentialMatchScores(locals.profileData[1],
                         locals.typedFitnessProfile[1], locals.allProfiles,
                         locals.allFitnessProfiles, locals.userMatches)
       IN  /\ locals' = [locals EXCEPT !.potentialMatchScores = scores]
           /\ hook' = [hook EXCEPT
                  !.existingMatches =
                      processedExistingMatches(locals.userMatches,
                          locals.allProfiles, locals.allFitnessProfiles),
                  !.potentialMatches =
                      sort(filteredMatches(scores))]
    /\ loadPc' = "finally"
    /\ UNCHANGED <<db, toasts, outsideLoad>>

\* Variant of the catch clause that only logs.
CatchSilently ==
    /\ loadPc = "catch"
    /\ loadPc' = "finally"
    /\ UNCHANGED <<db, hook, locals, toasts, outsideLoad>>

\* lines 201-208: the catch clause shows the generic notification
Catch ==
    /\ loadPc = "catch"
    /\ toasts' = Append(toasts, "Error")
    /\ loadPc' = "finally"
    /\ UNCHANGED <<db, hook, locals, outsideLoad>>

\* lines 209-211
Finally ==
    /\ loadPc = "finally"
    /\ hook' = [hook EXCEPT !.isLoading = FALSE]
    /\ loadPc' = "done"
    /\ UNCHANGED <<db, locals, toasts, outsideLoad>>

NextLoad ==
    \/ FetchProfile
    \/ FetchFitnessProfile
    \/ FetchAllProfiles
    \/ FetchAllFitnessProfiles
    \/ FetchUserMatches
    \/ Process
    \/ Catch
    \/ Finally

SpecLoad == InitLoad /\ [][NextLoad]_vars

\* The ids in a list of MatchScores.
UserIdsOf(matchScores) == {matchScores[i].userId : i \in 1..Len(matchScores)}

\* The load went through without a thrown error and has set its lists.
Loaded == loadPc \in {"finally", "done"} /\ locals.error = <<>>

\* The users of a match other than the current user.
MatchedWith(userMatches) ==
    {userMatches[i].user1_id : i \in 1..Len(userMatches)}
        \cup {userMatches[i].user2_id : i \in 1..Len(userMatches)}

\* The fitness_profiles row of a user in the table, <<>> if there is none.
StoredFitnessProfile(id) == find(db.fitness_profiles, id)

\* The user's stored fitness profile lacks nothing the load asks for.
Complete(id) ==
    /\ StoredFitnessProfile(id) # <<>>
    /\ StoredFitnessProfile(id)[1].fitness_level # ""
    /\ StoredFitnessProfile(id)[1].fitness_goal # ""
    /\ StoredFitnessProfile(id)[1].fitness_style # <<>>

\* C14: after a successful load the potential-matches list holds exactly the
\* scored candidates whose score is above 0.3, each once; a candidate with a
\* score of 0.3 or less is never in the list.
C14_PotentialAboveThreshold ==
    /\ \A i \in 1..Len(hook.potentialMatches) :
          hook.potentialMatches[i].compatibilityScore > 30
    /\ Loaded =>
          /\ range(hook.potentialMatches) =
                 {m \in range(locals.potentialMatchScores) : m.compatibilityScore > 30}
          /\ Cardinality(UserIdsOf(hook.potentialMatches)) = Len(hook.potentialMatches)

\* A load ended with a candidate above the threshold listed and a scored
\* candidate below it left out.
C14_Witness ==
    /\ loadPc = "done"
    /\ locals.error = <<>>
    /\ hook.potentialMatches # <<>>
    /\ \E i \in 1..Len(locals.potentialMatchScores) :
          locals.potentialMatchScores[i].compatibilityScore = 28

\* C15: a user who is in a match fetched by the load, on either side and in
\* any status, is not among the scored candidates nor in the potential list.
C15_MatchedNeverScored ==
    \A id \in MatchedWith(locals.userMatches) :
        /\ id \notin UserIdsOf(locals.potentialMatchScores)
        /\ id \notin UserIdsOf(hook.potentialMatches)

\* A load ended that left out a user with a complete profile because of a
\* match that user had created, and scored another user.
C15_Witness ==
    /\ loadPc = "done"
    /\ locals.potentialMatchScores # <<>>
    /\ \E i \in 1..Len(locals.userMatches) :
          /\ locals.userMatches[i].user2_id = userId
          /\ Complete(locals.userMatches[i].user1_id)

\* C16: a candidate without a fitness profile, or with one that lacks the
\* level, the goal or any style, is never scored; the load that meets one shows
\* no notification and does not abort, and scores every candidate that has a
\* complete profile and no match with the user.
C16_IncompleteSkipped ==
    /\ \A i \in 1..Len(OtherIds) :
          ~Complete(OtherIds[i]) => OtherIds[i] \notin UserIdsOf(locals.potentialMatchScores)
    /\ Loaded =>
          /\ toasts = <<>>
          /\ \A i \in 1..Len(OtherIds) :
                Complete(OtherIds[i]) /\ OtherIds[i] \notin MatchedWith(locals.userMatches)
                    => OtherIds[i] \in UserIdsOf(locals.potentialMatchScores)

\* A load ended that skipped an unmatched candidate with an empty style list
\* and one with no fitness profile, and scored a third.
C16_Witness ==
    /\ loadPc = "done"
    /\ locals.error = <<>>
    /\ db.matches = <<>>
    /\ StoredFitnessProfile(OtherIds[1]) # <<>>
    /\ StoredFitnessProfile(OtherIds[1])[1].fitness_style = <<>>
    /\ StoredFitnessProfile(OtherIds[2]) = <<>>
    /\ UserIdsOf(locals.potentialMatchScores) = {OtherIds[3]}

\* C20: a load in which a fetch failed shows the generic error notification
\* once, scores nobody, leaves both lists empty and ends the loading state; it
\* makes no further request.
C20_FetchFailureAborts ==
    /\ locals.error # <<>> =>
          /\ locals.potentialMatchScores = <<>>
          /\ hook.potentialMatches = <<>>
          /\ hook.existingMatches = <<>>
          /\ loadPc \in {"catch", "finally", "done"}
    /\ locals.error # <<>> /\ loadPc \in {"finally", "done"} => toasts = <<"Error">>
    /\ loadPc = "done" => ~hook.isLoading

\* The fetch of the matches failed after every other fetch had succeeded, with
\* candidates to score in the tables, and the load has ended.
C20_Witness ==
    /\ loadPc = "done"
    /\ locals.error = <<"userMatchesError">>
    /\ locals.allFitnessProfiles # <<>>
    /\ Complete(OtherIds[1])
    /\ toasts = <<"Error">>

-----------------------------------------------------------------------------
(* The Matches page (src/src/pages/Matches.tsx).                           *)
(*                                                                         *)
(* Two users each have the page open against the same tables.  A request   *)
(* takes effect on the tables in the step that sends it; what the handler  *)
(* does after the await is a later step, so other clicks and requests fall *)
(* in between.  A handler waiting for its response is an entry of `calls`. *)
(* A throw, the catch clause and the finally clause run in one step.  Of   *)
(* the notifications only the title of the latest is kept.  The effect     *)
(* runs again when the auth provider hands the page a new user object      *)
(* (the effect depends on `user`), with the state of the render it is      *)
(* created in.                                                             *)

\* Bounds: the runs of the effect per page, and the handler calls of a page
\* that wait for a response at the same time.
MaxRuns == 2
MaxInFlight == 1

Users == <<currentUserProfile.id, otherUserProfile.id>>

\* What a division by zero (0 / 0) leaves in a score.
NaN == -1

\* String.prototype.toLowerCase on the location texts.
locationToLowerCase(location) ==
    CASE location = "Austin, TX" -> "austin, tx"
      [] location = "Dallas, TX" -> "dallas, tx"
      [] OTHER -> location

\* Variant of the page's scorer that scores as calculateMatchScore does.
calculateCompatibilityScoreAdditive(userFitnessProfile, otherFitnessProfile) ==
    calculateMatchScore(currentUserProfile, userFitnessProfile,
                        otherUserProfile, otherFitnessProfile).compatibilityScore

\* Matches.tsx, lines 20-75.  The score and the factors are fractions over
\* 7 * (longer style list) * (longer slot list); toFixed(2) rounds the quotient.
calculateCompatibilityScore(userFitnessProfile, otherFitnessProfile) ==
    LET sharedStyles == filterIncluded(userFitnessProfile.fitness_style,
                                       otherFitnessProfile.fitness_style)
        sharedDays == filterIncluded(userFitnessProfile.availability_days,
                                     otherFitnessProfile.availability_days)
        sharedTimeSlots == filterIncluded(userFitnessProfile.preferred_time_slots,
                                          otherFitnessProfile.preferred_time_slots)
        maxStyles == max(Len(userFitnessProfile.fitness_style),
                         Len(otherFitnessProfile.fitness_style))
        maxSlots == max(Len(userFitnessProfile.preferred_time_slots),
                        Len(otherFitnessProfile.preferred_time_slots))
        level == IF userFitnessProfile.fitness_level = otherFitnessProfile.fitness_level
                 THEN 1 ELSE 0
        place ==
            IF /\ Truthy(userFitnessProfile.gym_name)
               /\ Truthy(otherFitnessProfile.gym_name)
               /\ toLowerCase(userFitnessProfile.gym_name.value)
                      = toLowerCase(otherFitnessProfile.gym_name.value)
            THEN 2
            ELSE IF locationToLowerCase(userFitnessProfile.location)
                        = locationToLowerCase(otherFitnessProfile.location)
                 THEN 1 ELSE 0
        goal == IF userFitnessProfile.fitness_goal = otherFitnessProfile.fitness_goal
                THEN 3 ELSE 0
        totalFactors == 1 + 3 + 2 + 2 + 2 + goal
        unit == 7 * maxStyles * maxSlots
        scoreTimesUnit ==
            (level + place + goal) * unit
                + 3 * Len(sharedStyles) * 7 * maxSlots
                + 2 * Len(sharedDays) * maxStyles * maxSlots
                + 2 * Len(sharedTimeSlots) * 7 * maxStyles
    IN  IF unit = 0 THEN NaN ELSE toFixed2(scoreTimesUnit, unit * totalFactors)

\* lines 111-114: the useState initial values, and no toast shown
pageInitial ==
    [isLoading |-> TRUE,
     potentialMatches |-> <<>>,
     existingMatches |-> <<>>,
     userFitnessProfile |-> <<>>,
     toast |-> ""]

\* A run of the effect: it sees the userFitnessProfile of its render.
EffectRun(userFitnessProfile, runs) ==
    [pc |-> "fitnessProfile",
     userFitnessProfile |-> userFitnessProfile,
     runs |-> runs,
     allFitnessProfiles |-> <<>>,
     userMatches |-> <<>>]

\* Both users have a profile and a complete fitness profile, nobody is
\* matched, and both open the page.
InitMatches ==
    /\ NoScoring
    /\ NoRanking
    /\ NoDialog
    /\ NoChat
    /\ NoHook
    /\ db = [profiles |-> <<currentUserProfile, otherUserProfile>>,
             fitness_profiles |-> <<Row(Users[1], ScenarioPair.cur),
                                    Row(Users[2], ScenarioPair.oth)>>,
             matches |-> <<>>,
             messages |-> <<>>]
    /\ page = [u \in range(Users) |-> pageInitial]
    /\ fetchData = [u \in range(Users) |-> EffectRun(<<>>, 1)]
    /\ calls = [u \in range(Users) |-> <<>>]

\* The run of fetchData is over; its consts are gone.
Ended(run) ==
    [run EXCEPT !.pc = "done", !.allFitnessProfiles = <<>>, !.userMatches = <<>>]

\* lines 266-275: a thrown error is caught, the generic notification shown
\* and the loading state ended.
Failed(u) ==
    /\ page' = [page EXCEPT ![u].toast = "Error", ![u].isLoading = FALSE]
    /\ fetchData' = [fetchData EXCEPT ![u] = Ended(@)]

\* lines 127-154: the user's fitness profile, into the state
FetchOwn(u) ==
    /\ fetchData[u].pc = "fitnessProfile"
    /\ LET data == single(SelectSeq(db.fitness_profiles, LAMBDA row : row.id = u))
       IN  \/ /\ data # <<>>
              /\ page' = [page EXCEPT ![u].userFitnessProfile = data]
              /\ fetchData' = [fetchData EXCEPT ![u].pc = "allFitnessProfiles"]
           \/ Failed(u)
    /\ UNCHANGED <<db, calls, outsidePages>>

\* lines 157-175: the other fitness profiles (and all profiles, for display)
FetchOthers(u) ==
    /\ fetchData[u].pc = "allFitnessProfiles"
    /\ \/ /\ fetchData' = [fetchData EXCEPT
                 ![u].allFitnessProfiles =
                     SelectSeq(db.fitness_profiles, LAMBDA row : row.id # u),
                 ![u].pc = "userMatches"]
          /\ UNCHANGED page
       \/ Failed(u)
    /\ UNCHANGED <<db, calls, outsidePages>>

\* lines 178-186: the matches the user is part of
FetchMatches(u) ==
    /\ fetchData[u].pc = "userMatches"
    /\ \/ /\ fetchData' = [fetchData EXCEPT
                 ![u].userMatches =
                     SelectSeq(db.matches,
                         LAMBDA row : row.user1_id = u \/ row.user2_id = u),
                 ![u].pc = "process"]
          /\ UNCHANGED page
       \/ Failed(u)
    /\ UNCHANGED <<db, calls, outsidePages>>

\* lines 214-223: the fitness profiles of users not yet matched, complete
availableProfiles(allFitnessProfiles, userMatches) ==
    SelectSeq(allFitnessProfiles, LAMBDA profile :
        /\ ~includes(existingMatchUserIds(userMatches), profile.id)
        /\ profile.fitness_level # ""
        /\ profile.fitness_goal # ""
        /\ Len(profile.fitness_style) > 0)

\* lines 232-257: each available profile with its score against the
\* userFitnessProfile the effect sees, those above 0.3, best first.  A
\* PotentialMatch is kept as its id and score.
scoredAndFiltered(userFitnessProfile, available) ==
    sort(SelectSeq([i \in 1..Len(available) |->
                       [id |-> available[i].id,
                        compatibilityScore |->
                            calculateCompatibilityScore(userFitnessProfile, available[i])]],
                   LAMBDA match : match.compatibilityScore > 30))

\* lines 188-275: the rest of fetchData.  The existing matches are set
\* first; scoring then reads a property of the userFitnessProfile the effect
\* sees, which throws a TypeError when that is null.  An existing match is
\* kept as its row.
Finish(u) ==
    /\ fetchData[u].pc = "process"
    /\ LET run == fetchData[u]
           available == availableProfiles(run.allFitnessProfiles, run.userMatches)
       IN  IF available # <<>> /\ run.userFitnessProfile = <<>>
           THEN page' = [page EXCEPT ![u].existingMatches = run.userMatches,
                                     ![u].toast = "Error",
                                     ![u].isLoading = FALSE]
           ELSE page' = [page EXCEPT
                    ![u].existingMatches = run.userMatches,
                    ![u].potentialMatches =
                        IF available = <<>> THEN <<>>
                        ELSE scoredAndFiltered(run.userFitnessProfile[1], available),
                    ![u].isLoading = FALSE]
    /\ fetchData' = [fetchData EXCEPT ![u] = Ended(@)]
    /\ UNCHANGED <<db, calls, outsidePages>>

\* lines 118, 279: `user` changes, the effect runs again
Rerun(u) ==
    /\ fetchData[u].pc = "done"
    /\ fetchData[u].runs < MaxRuns
    /\ fetchData' = [fetchData EXCEPT
           ![u] = EffectRun(page[u].userFitnessProfile, fetchData[u].runs + 1)]
    /\ UNCHANGED <<db, page, calls, outsidePages>>

\* The array without its i-th element.
RemoveAt(array, i) == SubSeq(array, 1, i - 1) \o SubSeq(array, i + 1, Len(array))

\* The page shows the lists and their buttons (lines 375-381, 490-499) and
\* one more handler call may wait for its response.
CanClick(u) == ~page[u].isLoading /\ Len(calls[u]) < MaxInFlight

\* Variant of the inserted score that scores the pair afresh.
insertedScoreRescored(u, matchUserId) ==
    calculateCompatibilityScore(
        find(db.fitness_profiles, u)[1],
        find(db.fitness_profiles, matchUserId)[1])

\* line 292: potentialMatches.find(m => m.id === matchUserId)?.compatibilityScore || 0
insertedScore(u, matchUserId) ==
    LET found == find(page[u].potentialMatches, matchUserId)
    IN  IF found = <<>> \/ found[1].compatibilityScore = NaN
        THEN 0 ELSE found[1].compatibilityScore

\* lines 281-295, 329-336: Connect on a listed candidate, handleMatchAction
\* with accept up to the insert; the insert adds the row or fails.
Connect(u, matchUserId) ==
    /\ CanClick(u)
    /\ find(page[u].potentialMatches, matchUserId) # <<>>
    /\ \/ /\ db' = [db EXCEPT !.matches = Append(@,
                       [id |-> Len(db.matches) + 1,
                        user1_id |-> u,
                        user2_id |-> matchUserId,
                        status |-> "pending",
                        compatibility_score |-> insertedScore(u, matchUserId)])]
          /\ calls' = [calls EXCEPT ![u] = Append(@,
                          [handler |-> "handleMatchAction", target |-> matchUserId,
                           pc |-> "inserted", action |-> "accept"])]
          /\ UNCHANGED page
       \/ /\ page' = [page EXCEPT ![u].toast = "Error"]
          /\ UNCHANGED <<db, calls>>
    /\ UNCHANGED <<fetchData, outsidePages>>

\* lines 281-285, 303: Skip on a listed candidate, handleMatchAction with reject
Skip(u, matchUserId) ==
    /\ ~page[u].isLoading
    /\ find(page[u].potentialMatches, matchUserId) # <<>>
    /\ page' = [page EXCEPT ![u].potentialMatches =
                    SelectSeq(@, LAMBDA match : match.id # matchUserId)]
    /\ UNCHANGED <<db, fetchData, calls, outsidePages>>

\* lines 297-311: the insert has answered; the candidate leaves the list and
\* the new row is asked for
Inserted(u, i) ==
    /\ i \in 1..Len(calls[u])
    /\ calls[u][i].handler = "handleMatchAction"
    /\ calls[u][i].pc = "inserted"
    /\ page' = [page EXCEPT
           ![u].toast = "Match Requested",
           ![u].potentialMatches =
               SelectSeq(@, LAMBDA match : match.id # calls[u][i].target)]
    /\ calls' = [calls EXCEPT ![u][i].pc = "select"]
    /\ UNCHANGED <<db, fetchData, outsidePages>>

\* lines 306-336: the new row, if .single() finds exactly one, joins the
\* existing matches; otherwise the error is caught
Selected(u, i) ==
    /\ i \in 1..Len(calls[u])
    /\ calls[u][i].handler = "handleMatchAction"
    /\ calls[u][i].pc = "select"
    /\ LET data == single(SelectSeq(db.matches, LAMBDA row :
                       row.user1_id = u /\ row.user2_id = calls[u][i].target))
       IN  \/ /\ data # <<>>
              /\ page' = [page EXCEPT ![u].existingMatches = Append(@, data[1])]
           \/ page' = [page EXCEPT ![u].toast = "Error"]
    /\ calls' = [calls EXCEPT ![u] = RemoveAt(@, i)]
    /\ UNCHANGED <<db, fetchData, outsidePages>>

\* lines 351-357 (and 343-344): the status an answer gives a match
respondedStatus(action) == IF action = "accept" THEN "accepted" ELSE "rejected"

\* Variant of the update that also clears the stored score.
updatedClearingScore(row, action) ==
    [row EXCEPT !.status = respondedStatus(action), !.compatibility_score = 0]

\* lines 343-346: the columns the update sets (updated_at is not kept)
updated(row, action) == [row EXCEPT !.status = respondedStatus(action)]

\* lines 339-349, 365-372, 591-604: Accept or Decline on a match the page
\* shows as pending and addressed to the user; the update of the row with that
\* id is applied or fails.
Respond(u, matchId, action) ==
    /\ CanClick(u)
    /\ LET shown == find(page[u].existingMatches, matchId)
       IN  /\ shown # <<>>
           /\ shown[1].status = "pending"
           /\ shown[1].user2_id = u
    /\ \/ /\ db' = [db EXCEPT !.matches =
                       [k \in 1..Len(@) |->
                           IF @[k].id = matchId THEN updated(@[k], action) ELSE @[k]]]
          /\ calls' = [calls EXCEPT ![u] = Append(@,
                          [handler |-> "handleMatchResponse", target |-> matchId,
                           pc |-> "updated", action |-> action])]
          /\ UNCHANGED page
       \/ /\ page' = [page EXCEPT ![u].toast = "Error"]
          /\ UNCHANGED <<db, calls>>
    /\ UNCHANGED <<fetchData, outsidePages>>

\* lines 351-364: the update has answered; the page's copy follows
Responded(u, i) ==
    /\ i \in 1..Len(calls[u])
    /\ calls[u][i].handler = "handleMatchResponse"
    /\ page' = [page EXCEPT
           ![u].existingMatches =
               [k \in 1..Len(@) |->
                   IF @[k].id = calls[u][i].target
                   THEN [@[k] EXCEPT !.status = respondedStatus(calls[u][i].action)]
                   ELSE @[k]],
           ![u].toast = IF calls[u][i].action = "accept"
                        THEN "Match Accepted" ELSE "Match Rejected"]
    /\ calls' = [calls EXCEPT ![u] = RemoveAt(@, i)]
    /\ UNCHANGED <<db, fetchData, outsidePages>>

\* SetupFitnessProfile.tsx, lines 89-102: the user saves the form with
\* another goal; the upsert replaces the user's fitness_profiles row.
EditFitnessProfile(u, goal) ==
    /\ \E k \in 1..Len(db.fitness_profiles) :
          /\ db.fitness_profiles[k].id = u
          /\ db.fitness_profiles[k].fitness_goal # goal
          /\ db' = [db EXCEPT !.fitness_profiles[k].fitness_goal = goal]
    /\ UNCHANGED <<page, fetchData, calls, outsidePages>>

\* The ids the matches can get: a page lists its one candidate at most once
\* per run, and a listed candidate is connected with once per waiting call.
MatchIds == 1..(Len(Users) * MaxRuns * MaxInFlight)

NextMatches ==
    \E u \in range(Users) :
        \/ FetchOwn(u)
        \/ FetchOthers(u)
        \/ FetchMatches(u)
        \/ Finish(u)
        \/ Rerun(u)
        \/ \E matchUserId \in range(Users) : Connect(u, matchUserId)
        \/ \E matchUserId \in range(Users) : Skip(u, matchUserId)
        \/ \E i \in 1..MaxInFlight : Inserted(u, i)
        \/ \E i \in 1..MaxInFlight : Selected(u, i)
        \/ \E matchId \in MatchIds, action \in {"accept", "reject"} :
              Respond(u, matchId, action)
        \/ \E i \in 1..MaxInFlight : Responded(u, i)
        \/ \E goal \in {"cutting", "bulking"} : EditFitnessProfile(u, goal)

SpecMatches == InitMatches /\ [][NextMatches]_vars

\* The matches present keep their place and id in the next state.
RowsKept ==
    /\ Len(db'.matches) >= Len(db.matches)
    /\ \A k \in 1..Len(db.matches) : db'.matches[k].id = db.matches[k].id

\* What scoring the two users of a match would give now.
Rescored(row) ==
    calculateCompatibilityScore(
        find(db.fitness_profiles, row.user1_id)[1],
        find(db.fitness_profiles, row.user2_id)[1])

\* C17: no step changes the compatibility_score of a match that exists:
\* not an answer to it, not an edit of a fitness profile, nothing else.
C17_ScoreWrittenOnce ==
    [][/\ RowsKept
       /\ \A k \in 1..Len(db.matches) :
             db'.matches[k].compatibility_score = db.matches[k].compatibility_score]_vars

\* A match has been answered and a profile edited since it was created:
\* scoring the pair again would give another number than the one stored.
C17_Witness ==
    \E k \in 1..Len(db.matches) :
        /\ db.matches[k].status # "pending"
        /\ db.matches[k].compatibility_score > 0
        /\ Rescored(db.matches[k]) # db.matches[k].compatibility_score

\* C18: the status of a match changes only from pending to accepted or to
\* rejected, and only in a step in which the user the match is addressed to
\* (user2) answers it; no match is ever removed.
C18_StatusLifecycle ==
    [][/\ RowsKept
       /\ \A k \in 1..Len(db.matches) :
             db'.matches[k].status # db.matches[k].status =>
                 /\ db.matches[k].status = "pending"
                 /\ db'.matches[k].status \in {"accepted", "rejected"}
                 /\ Len(calls'[db.matches[k].user2_id])
                        > Len(calls[db.matches[k].user2_id])]_vars

\* C19: a match is created only in a step in which a user presses Connect on
\* a candidate of the potential-matches list the page shows; the new row has
\* that user as user1, the candidate as user2, status pending and the score the
\* list shows for the candidate.  A step that starts no handler call (Skip is
\* one) creates no match.
C19_CreatedByConnect ==
    [][/\ Len(db'.matches) > Len(db.matches) =>
             /\ Len(db'.matches) = Len(db.matches) + 1
             /\ \E u \in range(Users) : \E i \in 1..Len(page[u].potentialMatches) :
                   LET created == Last(db'.matches)
                       shown == page[u].potentialMatches[i]
                   IN  /\ created.user1_id = u
                       /\ created.user2_id = shown.id
                       /\ created.status = "pending"
                       /\ created.compatibility_score = shown.compatibilityScore
                       /\ calls'[u] = Append(calls[u],
                              [handler |-> "handleMatchAction", target |-> shown.id,
                               pc |-> "inserted", action |-> "accept"])
       /\ calls' = calls => db'.matches = db.matches]_vars

\* A user has just connected with a candidate whose profile had changed since
\* the list was loaded: the row holds the score the list shows, which is not
\* what scoring the pair afresh would give.
C19_Witness ==
    \E u \in range(Users) :
        /\ calls[u] # <<>>
        /\ calls[u][1].handler = "handleMatchAction"
        /\ calls[u][1].pc = "inserted"
        /\ \E i \in 1..Len(page[u].potentialMatches) :
              /\ page[u].potentialMatches[i].id = calls[u][1].target
              /\ Last(db.matches).user1_id = u
              /\ Last(db.matches).compatibility_score
                     = page[u].potentialMatches[i].compatibilityScore
              /\ Rescored(Last(db.matches)) # Last(db.matches).compatibility_score

\* The matches that link the two users, in either direction.
Linking ==
    {k \in 1..Len(db.matches) :
        {db.matches[k].user1_id, db.matches[k].user2_id} = range(Users)}

\* C23: whatever the order of the loads and the Connect clicks of the two
\* users, at most one match links them, counting both directions.
C23_AtMostOneRecordPerPair == Cardinality(Linking) <= 1

\* C24: a load whose fetches all succeeded and that found a complete,
\* unmatched candidate scores with the fitness profile it fetched itself (the
\* one its first request put into the state), never with null: it ends by
\* setting the potential matches scored with that profile and shows no error.
C24_ScoresWithFetchedProfile ==
    [][\A u \in range(Users) :
          LET run == fetchData[u]
              available == availableProfiles(run.allFitnessProfiles, run.userMatches)
          IN  run.pc = "process" /\ fetchData'[u].pc = "done" /\ available # <<>> =>
                  /\ run.userFitnessProfile # <<>>
                  /\ run.userFitnessProfile = page[u].userFitnessProfile
                  /\ page'[u].potentialMatches =
                         scoredAndFiltered(page[u].userFitnessProfile[1], available)
                  /\ page'[u].toast = page[u].toast]_vars

\* C28: a Connect click whose insert fails (it starts no waiting call and
\* adds no row) leaves both lists of the page as they are and shows the error
\* notification; a Connect whose insert succeeded has, in the step that ends
\* the handler call, the candidate out of the potential list and a match
\* with that candidate in the existing list.
C28_ConnectOutcome ==
    [][\A u \in range(Users) :
          /\ (/\ calls' = calls
              /\ fetchData' = fetchData
              /\ page'[u].toast # page[u].toast) =>
                 /\ page'[u].toast = "Error"
                 /\ page'[u].potentialMatches = page[u].potentialMatches
                 /\ page'[u].existingMatches = page[u].existingMatches
                 /\ db' = db
          /\ \A i \in 1..Len(calls[u]) :
                (/\ calls'[u] = RemoveAt(calls[u], i)
                 /\ calls[u][i].handler = "handleMatchAction") =>
                    /\ find(page'[u].potentialMatches, calls[u][i].target) = <<>>
                    /\ \E k \in 1..Len(page'[u].existingMatches) :
                          /\ page'[u].existingMatches[k].user1_id = u
                          /\ page'[u].existingMatches[k].user2_id
                                 = calls[u][i].target]_vars

-----------------------------------------------------------------------------
(* The two scorers on the same rows.  The user has the hook of             *)
(* DebugInfoDisplay.tsx mounted, which ranks with calculateMatchScore, and *)
(* the Matches page open, which ranks with calculateCompatibilityScore.    *)
(* Two other users have complete fitness profiles and nobody is matched.   *)

\* ScenarioPair.oth with three more styles ticked, two of them shared.
ManyStylesProfile ==
    [ScenarioPair.oth EXCEPT
        !.fitness_style = <<"strength", "hiit", "cardio", "yoga", "pilates">>]

\* The fitness profiles the two candidates draw from.
ComparedOptions ==
    {ScenarioPair.oth,
     ManyStylesProfile,
     TwinsPair.cur,
     [StrangersPair.oth EXCEPT !.availability_days = <<"mon">>]}

\* The hook mounts and the page opens, for the same user.
InitScorers ==
    /\ NoScoring
    /\ NoRanking
    /\ NoDialog
    /\ NoChat
    /\ \E a \in ComparedOptions, b \in ComparedOptions :
          db = [profiles |-> <<currentUserProfile, [id |-> OtherIds[1]],
                               [id |-> OtherIds[2]]>>,
                fitness_profiles |-> <<Row(userId, ScenarioPair.cur),
                                       Row(OtherIds[1], a), Row(OtherIds[2], b)>>,
                matches |-> <<>>,
                messages |-> <<>>]
    /\ hook = useStateInitial
    /\ loadPc = "profile"
    /\ locals = noLocals
    /\ toasts = <<>>
    /\ page = [u \in {userId} |-> pageInitial]
    /\ fetchData = [u \in {userId} |-> EffectRun(<<>>, 1)]
    /\ calls = [u \in {userId} |-> <<>>]

NextScorers ==
    \/ FetchProfile
    \/ FetchFitnessProfile
    \/ FetchAllProfiles
    \/ FetchAllFitnessProfiles
    \/ FetchUserMatches
    \/ Process
    \/ Catch
    \/ Finally
    \/ FetchOwn(userId)
    \/ FetchOthers(userId)
    \/ FetchMatches(userId)
    \/ Finish(userId)
    \/ Rerun(userId)

SpecScorers == InitScorers /\ [][NextScorers]_vars

\* The ids of a list of entries, in the list's order.
IdsInOrder(list) ==
    [i \in 1..Len(list) |->
        IF "userId" \in DOMAIN list[i] THEN list[i].userId ELSE list[i].id]

\* The first candidate has ScenarioPair.oth, the second the same profile
\* with more styles.
InversionRows ==
    /\ find(db.fitness_profiles, OtherIds[1]) = <<Row(OtherIds[1], ScenarioPair.oth)>>
    /\ find(db.fitness_profiles, OtherIds[2]) = <<Row(OtherIds[2], ManyStylesProfile)>>

\* C22: the two scorers do not rank alike.  For the user of ScenarioPair.cur
\* and these two complete candidates, calculateMatchScore scores the second
\* strictly above the first and calculateCompatibilityScore the first strictly
\* above the second, so the hook and the page list them in opposite orders.
C22_ScorersRankDifferently ==
    /\ InversionRows /\ hook.potentialMatches # <<>> =>
          /\ IdsInOrder(hook.potentialMatches) = <<OtherIds[2], OtherIds[1]>>
          /\ hook.potentialMatches[1].compatibilityScore
                 > hook.potentialMatches[2].compatibilityScore
    /\ InversionRows /\ page[userId].potentialMatches # <<>> =>
          /\ IdsInOrder(page[userId].potentialMatches) = <<OtherIds[1], OtherIds[2]>>
          /\ page[userId].potentialMatches[1].compatibilityScore
                 > page[userId].potentialMatches[2].compatibilityScore

\* Both loads have listed the two candidates, in opposite orders.
C22_Witness ==
    /\ loadPc = "done"
    /\ fetchData[userId].pc = "done"
    /\ Len(hook.potentialMatches) = 2
    /\ Len(page[userId].potentialMatches) = 2
    /\ IdsInOrder(hook.potentialMatches) = Reverse(IdsInOrder(page[userId].potentialMatches))
    /\ hook.potentialMatches[1].compatibilityScore
           > hook.potentialMatches[2].compatibilityScore
    /\ page[userId].potentialMatches[1].compatibilityScore
           > page[userId].potentialMatches[2].compatibilityScore

-----------------------------------------------------------------------------
(* The Chat page (src/src/pages/Home.tsx, lines 550-747) of the signed-in  *)
(* user.  Each await is a step of its own.  A change of selectedMatch      *)
(* commits a render whose effects call fetchMessages for the new match     *)
(* and replace the realtime channel; nothing cancels a fetchMessages or a  *)
(* callback already under way.  A channel delivers the inserts made after  *)
(* its subscription.  Messages come in the order of their ids.             *)
(* The other user of a match writes from a page of their own, of which     *)
(* only the insert is kept.                                                *)

\* Bounds: the rows of the messages table, and the runs of fetchMessages that
\* wait for a response at the same time.
MaxMessages == 2
MaxFetches == 2

\* String.prototype.trim, the string being kept as its characters
RECURSIVE trim(_)
trim(chars) ==
    IF chars = <<>> THEN <<>>
    ELSE IF Head(chars) = " " THEN trim(Tail(chars))
    ELSE IF Last(chars) = " " THEN trim(SubSeq(chars, 1, Len(chars) - 1))
    ELSE chars

\* What the user types into the input.
Typed == {<<" ">>, <<" ", "h", "i">>}

\* The ids of the matches table.
ChatMatchIds == 1..3

\* The user's accepted matches (one or two of them) and one of two others.
ChatMatches(n) ==
    LET accepted(id, a, b) ==
            [id |-> id, user1_id |-> a, user2_id |-> b, status |-> "accepted"]
    IN  SubSeq(<<accepted(1, userId, OtherIds[1]), accepted(2, OtherIds[2], userId)>>,
               1, n)
            \o <<accepted(3, OtherIds[1], OtherIds[2])>>

\* lines 553-562: the page is opened, with or without ?matchId= in the URL;
\* the effects of the first render run.
InitChat ==
    /\ NoScoring
    /\ NoRanking
    /\ NoDialog
    /\ NoHook
    /\ NoPages
    /\ \E n \in 1..2 :
          db = [profiles |-> <<currentUserProfile, [id |-> OtherIds[1]],
                               [id |-> OtherIds[2]]>>,
                fitness_profiles |-> <<>>,
                matches |-> ChatMatches(n),
                messages |-> <<>>]
    /\ \E matchId \in {<<>>, <<1>>, <<3>>} :
          /\ chat = [matchId |-> matchId,
                     loading |-> TRUE,
                     matches |-> <<>>,
                     selectedMatch |-> matchId,
                     messages |-> <<>>,
                     newMessage |-> <<>>,
                     sendingMessage |-> FALSE,
                     toast |-> "",
                     logged |-> FALSE]
          /\ fetchMatches = [pc |-> "matches", selectedMatch |-> matchId, data |-> <<>>]
          /\ fetchMessages =
                 IF matchId = <<>> THEN {}
                 ELSE {[selectedMatch |-> matchId[1], pc |-> "messages", data |-> <<>>]}
          /\ channel = IF matchId = <<>> THEN <<>>
                       ELSE <<[filter |-> matchId[1]]>>
    /\ callbacks = {}

\* lines 623-711: the effects of a render in which selectedMatch is new
selectedMatchEffects(selectedMatch) ==
    /\ fetchMessages' = fetchMessages \cup
           {[selectedMatch |-> selectedMatch, pc |-> "messages", data |-> <<>>]}
    /\ channel' = <<[filter |-> selectedMatch]>>

\* lines 608-617: fetchMatches caught an error
MatchesFailed ==
    /\ chat' = [chat EXCEPT !.toast = "Error", !.logged = TRUE, !.loading = FALSE]
    /\ fetchMatches' = [fetchMatches EXCEPT !.pc = "done", !.data = <<>>]
    /\ UNCHANGED <<fetchMessages, channel>>

\* lines 569-577: the user's accepted matches
FetchMatchesQuery ==
    /\ fetchMatches.pc = "matches"
    /\ \/ /\ fetchMatches' = [fetchMatches EXCEPT
                 !.pc = "profiles",
                 !.data = SelectSeq(db.matches, LAMBDA row :
                              /\ row.user1_id = userId \/ row.user2_id = userId
                              /\ row.status = "accepted")]
          /\ UNCHANGED <<chat, fetchMessages, channel>>
       \/ MatchesFailed
    /\ UNCHANGED <<db, callbacks, outsideChat>>

\* lines 579-617: the other users' profiles have answered; the matches and
\* the selection are set.  fetchMatches sees the selectedMatch of the first
\* render.
MatchesLoaded ==
    /\ fetchMatches.pc = "profiles"
    /\ \/ LET processedMatches == fetchMatches.data
              matchId == chat.matchId
              selected ==
                  IF matchId # <<>> /\ find(processedMatches, matchId[1]) # <<>>
                  THEN matchId
                  ELSE IF Len(processedMatches) > 0 /\ fetchMatches.selectedMatch = <<>>
                       THEN <<processedMatches[1].id>>
                       ELSE chat.selectedMatch
          IN  /\ chat' = [chat EXCEPT !.matches = processedMatches,
                                      !.selectedMatch = selected,
                                      !.loading = FALSE]
              /\ fetchMatches' = [fetchMatches EXCEPT !.pc = "done", !.data = <<>>]
              /\ IF selected # chat.selectedMatch
                 THEN selectedMatchEffects(selected[1])
                 ELSE UNCHANGED <<fetchMessages, channel>>
       \/ MatchesFailed
    /\ UNCHANGED <<db, callbacks, outsideChat>>

\* line 776: a click on another conversation of the list, which the page
\* shows once it has loaded some matches (lines 749-761)
SelectConversation(id) ==
    /\ ~chat.loading
    /\ find(chat.matches, id) # <<>>
    /\ chat.selectedMatch # <<id>>
    /\ Cardinality(fetchMessages) < MaxFetches
    /\ chat' = [chat EXCEPT !.selectedMatch = <<id>>]
    /\ selectedMatchEffects(id)
    /\ UNCHANGED <<db, fetchMatches, callbacks, outsideChat>>

\* lines 655-662: fetchMessages caught an error
MessagesFailed(run) ==
    /\ chat' = [chat EXCEPT !.toast = "Error", !.logged = TRUE]
    /\ fetchMessages' = fetchMessages \ {run}

\* lines 628-634: the messages of the match the run was called for
FetchMessagesQuery(id) ==
    /\ \E run \in fetchMessages :
          /\ run.selectedMatch = id
          /\ run.pc = "messages"
          /\ \/ /\ fetchMessages' = (fetchMessages \ {run}) \cup
                       {[run EXCEPT !.pc = "senders",
                                    !.data = SelectSeq(db.messages,
                                                 LAMBDA row : row.match_id = id)]}
                /\ UNCHANGED chat
             \/ MessagesFailed(run)
    /\ UNCHANGED <<db, fetchMatches, channel, callbacks, outsideChat>>

\* lines 636-654: the senders have answered; the run sets the list
MessagesLoaded(id) ==
    /\ \E run \in fetchMessages :
          /\ run.selectedMatch = id
          /\ run.pc = "senders"
          /\ \/ /\ chat' = [chat EXCEPT !.messages = run.data]
                /\ fetchMessages' = fetchMessages \ {run}
             \/ MessagesFailed(run)
    /\ UNCHANGED <<db, fetchMatches, channel, callbacks, outsideChat>>

\* An insert into messages, and the callback of lines 682-683 if the channel
\* of the page has its filter on the row's match.
Insert(match_id, sender_id, message) ==
    LET row == [id |-> Len(db.messages) + 1, match_id |-> match_id,
                sender_id |-> sender_id, message |-> message]
    IN  /\ db' = [db EXCEPT !.messages = Append(@, row)]
        /\ callbacks' =
               IF channel # <<>> /\ channel[1].filter = match_id
               THEN callbacks \cup {row}
               ELSE callbacks

\* lines 718-731, on the other user's page: a message in one of the user's
\* matches
OtherSends(id) ==
    /\ Len(db.messages) < MaxMessages
    /\ \E k \in 1..Len(db.matches) :
          /\ db.matches[k].id = id
          /\ db.matches[k].user1_id = userId \/ db.matches[k].user2_id = userId
          /\ Insert(id,
                    IF db.matches[k].user1_id = userId
                    THEN db.matches[k].user2_id ELSE db.matches[k].user1_id,
                    <<"y", "o">>)
    /\ UNCHANGED <<chat, fetchMatches, fetchMessages, channel, outsideChat>>

\* line 854: onChange of the input
Type(value) ==
    /\ ~chat.loading
    /\ Len(chat.matches) > 0
    /\ chat.selectedMatch # <<>>
    /\ ~chat.sendingMessage
    /\ chat.newMessage # value
    /\ chat' = [chat EXCEPT !.newMessage = value]
    /\ UNCHANGED <<db, fetchMatches, fetchMessages, channel, callbacks, outsideChat>>

\* lines 718-743: the form (shown with some matches loaded and a
\* selectedMatch, the button enabled) is submitted and passes the guard of
\* line 721; the insert is sent and adds the row, or fails
Send ==
    /\ ~chat.loading
    /\ Len(chat.matches) > 0
    /\ ~chat.sendingMessage
    /\ chat.selectedMatch # <<>>
    /\ trim(chat.newMessage) # <<>>
    /\ \/ /\ Len(db.messages) < MaxMessages
          /\ Insert(chat.selectedMatch[1], userId, trim(chat.newMessage))
          /\ chat' = [chat EXCEPT !.sendingMessage = TRUE]
       \/ /\ chat' = [chat EXCEPT !.toast = "Error", !.logged = TRUE]
          /\ UNCHANGED <<db, callbacks>>
    /\ UNCHANGED <<fetchMatches, fetchMessages, channel, outsideChat>>

\* lines 734-746: the insert has answered
Sent ==
    /\ chat.sendingMessage
    /\ chat' = [chat EXCEPT !.newMessage = <<>>, !.sendingMessage = FALSE]
    /\ UNCHANGED <<db, fetchMatches, fetchMessages, channel, callbacks, outsideChat>>

\* lines 685-703: the sender has answered; the callback appends the message,
\* or logs the error and returns
CallbackDone(id) ==
    /\ \E message \in callbacks :
          /\ message.id = id
          /\ callbacks' = callbacks \ {message}
          /\ \/ chat' = [chat EXCEPT !.messages = Append(@, message)]
             \/ chat' = [chat EXCEPT !.logged = TRUE]
    /\ UNCHANGED <<db, fetchMatches, fetchMessages, channel, outsideChat>>

NextChat ==
    \/ FetchMatchesQuery
    \/ MatchesLoaded
    \/ \E id \in ChatMatchIds : SelectConversation(id)
    \/ \E id \in ChatMatchIds : FetchMessagesQuery(id)
    \/ \E id \in ChatMatchIds : MessagesLoaded(id)
    \/ \E id \in ChatMatchIds : OtherSends(id)
    \/ \E value \in Typed : Type(value)
    \/ Send
    \/ Sent
    \/ \E id \in 1..MaxMessages : CallbackDone(id)

SpecChat == InitChat /\ [][NextChat]_vars

\* C25: on the Chat page, once no fetch of the selected match's messages is
\* under way and none has failed, every message of the displayed list has
\* the selected match as its match_id, whatever fetches and callbacks of
\* matches selected before are still to answer.
C25_DisplayedBelongToSelected ==
    /\ chat # <<>>
    /\ chat.selectedMatch # <<>>
    /\ ~chat.logged
    /\ \A run \in fetchMessages : run.selectedMatch # chat.selectedMatch[1]
    => \A i \in 1..Len(chat.messages) :
           chat.messages[i].match_id = chat.selectedMatch[1]

\* C26: on the Chat page of a user whose only match stays the selected one,
\* once fetchMatches, every fetchMessages and every realtime callback have
\* answered without an error, each message stored for the match is in the
\* displayed list exactly once.
C26_EveryMessageExactlyOnce ==
    /\ chat # <<>>
    /\ fetchMatches.pc = "done"
    /\ Len(chat.matches) = 1
    /\ chat.selectedMatch = <<chat.matches[1].id>>
    /\ ~chat.logged
    /\ fetchMessages = {}
    /\ callbacks = {}
    => \A k \in 1..Len(db.messages) :
           db.messages[k].match_id = chat.selectedMatch[1]
           => Cardinality({i \in 1..Len(chat.messages) :
                              chat.messages[i].id = db.messages[k].id}) = 1

\* C27: every row that handleSendMessage inserts into messages has the id of
\* one of the matches of the loaded list as its match_id, whatever the
\* matchId of the URL, and a text that is not empty once trimmed.
C27_SendsOnlyToLoadedMatches ==
    [][/\ chat # <<>>
       /\ Len(db'.messages) > Len(db.messages)
       /\ Last(db'.messages).sender_id = userId
       => /\ find(chat.matches, Last(db'.messages).match_id) # <<>>
          /\ trim(Last(db'.messages).message) # <<>>]_vars

====
